---- MODULE Spec2Model ----
(***************************************************************************)
(* One process's view of the sparse-tree LU factorization schedulers of    *)
(* LUstruct_v100: dDiagFactorPanelSolveGPU, dPanelBcastGPU, the pipelined  *)
(* dsparseTreeFactorGPU and dsparseTreeFactorGPUBaseline.                  *)
(*                                                                         *)
(* The forest, the send-count tables, the look-ahead depth and the grid    *)
(* coordinates of the process are inputs chosen in Init.  Every call the   *)
(* process issues (MPI broadcast, GPU kernel, memcpy, stream               *)
(* synchronization) is appended to the history variable trace in program   *)
(* order; pending holds, per GPU stream, the Schur updates issued on it    *)
(* and not yet synchronized.                                               *)
(***************************************************************************)
EXTENDS Integers, Sequences, FiniteSets

(* ------------------------------ bounds --------------------------------- *)
MaxNodes == 4       \* largest forest (number of supernodes in the subtree)
MaxLA == 4          \* largest value returned by getNumLookAhead
FirstSup == 1       \* global id of the first supernode of the forest

\* the 2 x 2 process grid
nprow == 2
npcol == 2

nsupers == FirstSup + MaxNodes
Slots == 0..MaxLA
\* indices of the diagonal-factor buffers: the pipelined scheduler uses
\* index 0, the baseline k0 - k_st on the host side
FBufIdx == 0..MaxNodes
NoNode == -1
NoPeer == [row |-> -1, col |-> -1, calls |-> <<>>, rowCalls |-> <<>>,
           colCalls |-> <<>>]

\* the L-panel constructor: largest number of row blocks and of rows in a
\* block (= size of every supernode)
MaxBlocks == 3
MaxRows == 2

\* layout of lsub (block-column header, block descriptor) and of the panel
\* index (header: nlb, nzrow, isDiagIncluded, SuperSize(k))
BC_HEADER == 2
LB_DESCRIPTOR == 2
LPANEL_HEADER_SIZE == 4
Uninit == -1        \* an entry of the malloc'ed index not yet written

SUPERLU_MIN(a, b) == IF a < b THEN a ELSE b

SetMax(S) == CHOOSE x \in S : \A y \in S : y <= x

(* --------------------------- forest inputs ----------------------------- *)
\* topological level of position i under the parent map p on positions
\* 0..n-1 (p[i] = n: parent outside the forest): 0 for a node without
\* children in the forest, else 1 + the largest level of its children
RECURSIVE LevelOf(_, _, _)
LevelOf(p, n, i) ==
    LET ch == {c \in 0..(n - 1) : p[c] = i}
    IN  IF ch = {} THEN 0 ELSE 1 + SetMax({LevelOf(p, n, c) : c \in ch})

\* node lists the symbolic analysis can produce: children before parents,
\* positions grouped by non-decreasing topological level
ParentMaps(n) ==
    {p \in [0..(n - 1) -> 0..n] :
        /\ \A i \in 0..(n - 1) : p[i] > i
        /\ \A i \in 0..(n - 2) : LevelOf(p, n, i) <= LevelOf(p, n, i + 1)}

\* parent of a forest root: an ancestor supernode of another forest when
\* one exists, else nsupers
RootParent(n) == IF FirstSup + n < nsupers THEN FirstSup + n ELSE nsupers

SetreeOf(p, n) ==
    [k \in 0..(nsupers - 1) |->
        IF k >= FirstSup /\ k < FirstSup + n
        THEN IF p[k - FirstSup] < n THEN FirstSup + p[k - FirstSup]
             ELSE RootParent(n)
        ELSE IF k < FirstSup THEN FirstSup ELSE k + 1]

\* send-count patterns: pairs of the set of node positions whose U panel is
\* empty and the set of those whose L panel is empty.  Over the node list
\* they give every combination (both, only U, only L, none) at even and at
\* odd positions, the all-empty and the all-full table.
SendPatterns(n) ==
    LET all == 0..(n - 1)
        ev == {i \in 0..(n - 1) : i % 2 = 0}
        od == {i \in 0..(n - 1) : i % 2 = 1}
    IN  { <<{}, {}>>, <<all, all>>, <<ev, od>>, <<od, {}>>, <<{}, ev>>,
          <<ev, ev>> }

SendCountsOf(Z) ==
    [k \in 0..(nsupers - 1) |-> IF (k - FirstSup) \in Z THEN 0 ELSE 1]

VARIABLES
    sched,                  \* "pipe": dsparseTreeFactorGPU, "base": ...Baseline
    nnodes, setree, numLA,  \* sforest->nNodes, gEtreeInfo->setree, look-ahead
    UidxSendCounts, LidxSendCounts,
    myrow, mycol,
    nearSingular,           \* supernodes whose diagonal block fails the pivot test
    myIpermEnd,             \* the word the read myIperm[nsupers] returns
    peer,                   \* grid position and calls of a peer process that
                            \* ran on the same inputs, NoPeer when none did
    pc, ret, info,          \* info: the status word *info of the caller
    topoLvl, k0, k1, winSize, winParity, halfWin, k1_next, oldWinSize, k0_next,
    donePanelBcast, donePanelSolve, localNumChildrenLeft,
    trace, pending,
    UidxRecvBufs, gpuUidxRecvBufs, gpuUvalRecvBufs,
    LidxRecvBufs, gpuLidxRecvBufs, gpuLvalRecvBufs,
    uPanelVec, lPanelVec,
    BlockLFactor, BlockUFactor, \* dFBufs[.]->BlockLFactor / BlockUFactor (host)
    gpuDFBufs,                  \* A_gpu.dFBufs[.] (device)
    uSolveDiag, lSolveDiag,     \* diagonal block each owned panel was solved with
    \* xlpanel_t constructor: its arguments, the index it builds, its locals
    lblocks,                    \* the row blocks <<global id, rows>> lsub encodes
    lsub, isDiagIncluded,
    index, lpc, lb, blkIdPtr, pxSumPtr, rowIdxPtr, lsub_ptr,
    \* dlsum_fmod_inv_gpu_mrhs on one process: its arguments, the two shared
    \* arrays, and the position of every thread of every thread block
    nrhs,                       \* number of right-hand sides
    Lrows,                      \* block column -> block rows of its L blocks
    fmod,                       \* block row -> modifications still to come
    lsum,                       \* atomicAdd contributions applied so far
    tpc, tlb,                   \* thread -> position / L block it works on
    lsumRead,                   \* thread -> what its read of lsum found
    \* wait_bcrd, thread block 1 (reduction receive): its arguments, the
    \* loop counter of every thread, and what was done for each block row
    flag_rd_q, d_statusmod,     \* two signal flags / status words per row
    destCnt, sigHalf, notRoot,  \* LRtree_ptr[lib]: destCnt_, the half its
                                \* single child signals, myRoot_ != myRank_
    WAIT_NUM_THREADS,
    wi,                         \* thread -> messages it has waited for
    fmodDec,                    \* row -> atomicSub calls made on fmod[row]
    halfRead,                   \* row -> halves of ready_lsum added to lsum
    d_flag_mod,                 \* [0]: number of queued rows, then the rows
    \* wait_bcrd, thread block 2 (reduction forward) and the producers that
    \* queue block rows in d_flag_mod
    tot_threads, d_nfrecvmod3,  \* blockDim.x * blockDim.y, d_nfrecvmod[3]
    qpos,                       \* producer (block row) -> its queue position
    recv_num, finish_num, cur_send_num,     \* the __shared__ counters
    fpc, fi, ftodo,             \* thread -> position, loop index i, entries
                                \* of d_flag_mod it still has to forward
    fwd,                        \* row -> forwards made by thread block 2
    direct,                     \* row -> forwards made by its producer
    \* get_perm_c_dist and at_plus_a_dist: the arguments, the build option,
    \* the position, and the locals and outputs
    a_m, a_n,                   \* A->nrow, A->ncol
    colptr, rowind,             \* Astore->colptr, Astore->rowind (0-based)
    ispec, HAVE_PARMETIS,
    gpc, gmsg,                  \* position; message of the ABORT taken
    t_colptr, t_rowind,         \* T = A' (0-based)
    bnz, b_colptr,
    b_rowind,                   \* b_rowind[i + 1] is (*b_rowind)[i]
    perm_c,
    gcalls,                     \* ordering routines called, in order
    \* xlpanel_t::getEndBlock: its arguments, its result, and the entries
    \* of the prefix sum it read
    iSt, maxRows, iEnd, stRowReads

inputs == <<sched, nnodes, setree, numLA, UidxSendCounts, LidxSendCounts,
            myrow, mycol, nearSingular, myIpermEnd, peer>>
locals == <<topoLvl, k0, k1, winSize, winParity, halfWin, k1_next,
            oldWinSize, k0_next>>
flags == <<donePanelBcast, donePanelSolve, localNumChildrenLeft>>
ubufs == <<UidxRecvBufs, gpuUidxRecvBufs, gpuUvalRecvBufs, uPanelVec>>
lbufs == <<LidxRecvBufs, gpuLidxRecvBufs, gpuLvalRecvBufs, lPanelVec>>
bufs == <<ubufs, lbufs>>
dbufs == <<BlockLFactor, BlockUFactor, gpuDFBufs, uSolveDiag, lSolveDiag>>
pvars == <<lblocks, lsub, isDiagIncluded, index, lpc, lb, blkIdPtr, pxSumPtr,
           rowIdxPtr, lsub_ptr>>
kvars == <<nrhs, Lrows, fmod, lsum, tpc, tlb, lsumRead>>
\* the variables of the routines other than the two schedulers and the
\* panel constructor
wvars == <<flag_rd_q, d_statusmod, destCnt, sigHalf, notRoot,
           WAIT_NUM_THREADS, wi, fmodDec, halfRead, d_flag_mod>>
fvars == <<tot_threads, d_nfrecvmod3, qpos, recv_num, finish_num,
           cur_send_num, fpc, fi, ftodo, fwd, direct>>
gvars == <<a_m, a_n, colptr, rowind, ispec, HAVE_PARMETIS, gpc, gmsg,
           t_colptr, t_rowind, bnz, b_colptr, b_rowind, perm_c, gcalls>>
evars == <<iSt, maxRows, iEnd, stRowReads>>
yvars == <<fvars, gvars, evars>>
xvars == <<kvars, wvars, yvars>>
svars == <<inputs, pc, ret, info, locals, flags, trace, pending, bufs, dbufs>>
vars == <<svars, pvars, xvars>>

(* ------------------------ forest metadata ------------------------------ *)
Pos == 0..(nnodes - 1)

perm_c_supno(i) == FirstSup + i

\* position of supernode k in the node list, -1 when k is not in the forest
\* (also for k = nsupers, the parent of a root, which line 140 looks up)
myIperm(k) == IF k >= FirstSup /\ k < FirstSup + nnodes THEN k - FirstSup ELSE -1

ParentPos(i) == myIperm(setree[perm_c_supno(i)])

Children(i) == {c \in Pos : ParentPos(c) = i}

RECURSIVE TopoLevel(_)
TopoLevel(i) ==
    IF Children(i) = {} THEN 0
    ELSE 1 + SetMax({TopoLevel(c) : c \in Children(i)})

maxTopoLevel == IF nnodes = 0 THEN 0 ELSE 1 + SetMax({TopoLevel(i) : i \in Pos})

\* eTreeTopLims[l]: first position of level l
eTreeTopLims(l) == Cardinality({i \in Pos : TopoLevel(i) < l})

(* --------------------------- process grid ------------------------------ *)
krow(k) == k % nprow
kcol(k) == k % npcol
procIJ(i, j) == (i % nprow) * npcol + (j % npcol)
iam == myrow * npcol + mycol

\* mutation: >= written for >
HasSendsGe(k) == UidxSendCounts[k] >= 0 /\ LidxSendCounts[k] >= 0

HasSends(k) == UidxSendCounts[k] > 0 /\ LidxSendCounts[k] > 0

Op(name, k, slot) == <<name, k, slot>>

Cond(c, s) == IF c THEN s ELSE <<>>

(* ------------------- dDiagFactorPanelSolveGPU -------------------------- *)
\* mutation: the process that factored the block does not enter the
\* broadcast of the L block
DiagBodyOwnerSkips(k, hostBuf, devBuf) ==
       Cond(iam = procIJ(k, k), << Op("diagFactorPackDiagBlockGPU", k, hostBuf) >>)
    \o Cond(myrow = krow(k) /\ iam # procIJ(k, k),
            << Op("BcastDiagL", k, hostBuf) >>)
    \o Cond(mycol = kcol(k), << Op("BcastDiagU", k, hostBuf) >>)
    \o Cond(myrow = krow(k), << Op("MemcpyDiagL", k, devBuf),
                                Op("uPanelSolveGPU", k, devBuf),
                                Op("uPanelSolveSync", k, devBuf) >>)
    \o Cond(mycol = kcol(k), << Op("MemcpyDiagU", k, devBuf),
                                Op("lPanelSolveGPU", k, devBuf),
                                Op("lPanelSolveSync", k, devBuf) >>)

\* mutation: the stream is not synchronized after the U-panel solve
DiagBodyNoUSync(k, hostBuf, devBuf) ==
       Cond(iam = procIJ(k, k), << Op("diagFactorPackDiagBlockGPU", k, hostBuf) >>)
    \o Cond(myrow = krow(k), << Op("BcastDiagL", k, hostBuf) >>)
    \o Cond(mycol = kcol(k), << Op("BcastDiagU", k, hostBuf) >>)
    \o Cond(myrow = krow(k), << Op("MemcpyDiagL", k, devBuf),
                                Op("uPanelSolveGPU", k, devBuf) >>)
    \o Cond(mycol = kcol(k), << Op("MemcpyDiagU", k, devBuf),
                                Op("lPanelSolveGPU", k, devBuf),
                                Op("lPanelSolveSync", k, devBuf) >>)

\* calls issued by dDiagFactorPanelSolveGPU(k, offset), in program order;
\* hostBuf is the index of the host buffer dFBufs[.], devBuf the index of
\* A_gpu.dFBufs[.] and of the stream; u/lPanelSolveSync is the
\* cudaStreamSynchronize that follows the panel solve
DiagBody(k, hostBuf, devBuf) ==
       Cond(iam = procIJ(k, k), << Op("diagFactorPackDiagBlockGPU", k, hostBuf) >>)
    \o Cond(myrow = krow(k), << Op("BcastDiagL", k, hostBuf) >>)
    \o Cond(mycol = kcol(k), << Op("BcastDiagU", k, hostBuf) >>)
    \o Cond(myrow = krow(k), << Op("MemcpyDiagL", k, devBuf),
                                Op("uPanelSolveGPU", k, devBuf),
                                Op("uPanelSolveSync", k, devBuf) >>)
    \o Cond(mycol = kcol(k), << Op("MemcpyDiagU", k, devBuf),
                                Op("lPanelSolveGPU", k, devBuf),
                                Op("lPanelSolveSync", k, devBuf) >>)

DiagOps(k, offset) ==
    << Op("dDiagFactorPanelSolveGPU", k, offset) >> \o DiagBody(k, offset, offset)

\* the panel solves are synchronized on the stream of the slot, which also
\* completes every update issued earlier on that stream
DiagPending(pend, k, offset) ==
    IF myrow = krow(k) \/ mycol = kcol(k)
    THEN [pend EXCEPT ![offset] = {}]
    ELSE pend

\* the threshold-pivot kernel records a near-singular block of supernode k
\* in the status word it is handed; the first report is kept
PivotStatus(inf, k) == IF k \in nearSingular /\ inf = 0 THEN k + 1 ELSE inf

\* mutation: the kernel is handed a scratch word that is then dropped
DiagInfoLocal(inf, k) == inf

\* the owner of the diagonal block hands the member info to the kernel
DiagInfo(inf, k) == IF iam = procIJ(k, k) THEN PivotStatus(inf, k) ELSE inf

\* the owner of the diagonal block packs the factored L and U diagonal
\* blocks of k into the host buffers of the slot
FactorHost(buf, k, hostBuf) ==
    IF iam = procIJ(k, k) THEN [buf EXCEPT ![hostBuf] = k] ELSE buf

\* mutation: the other process of the row is named as root
DiagRootLOther(k) == (kcol(k) + 1) % npcol

\* root of the broadcast of the L diagonal block in the row communicator
DiagRootL(k) == kcol(k)

\* root of the broadcast of the U diagonal block in the column communicator
DiagRootU(k) == krow(k)

\* MPI_Bcast of a host diagonal buffer seen from this process: the root
\* keeps its buffer, every other member receives what the root process
\* holds, which is the block of k when the root is the process that
\* factored it
DiagBcast(buf, k, hostBuf, member, isRoot, rootProc) ==
    IF member /\ ~isRoot
    THEN [buf EXCEPT ![hostBuf] = IF rootProc = procIJ(k, k) THEN k ELSE NoNode]
    ELSE buf

\* data flow of dDiagFactorPanelSolveGPU: factor and pack, two broadcasts,
\* copy of the L block to the device and solve of the U panel, copy of the
\* U block to the same device buffer and solve of the L panel
DiagData(k, hostBuf, devBuf) ==
    LET hL == DiagBcast(FactorHost(BlockLFactor, k, hostBuf), k, hostBuf,
                        myrow = krow(k), mycol = DiagRootL(k),
                        myrow * npcol + DiagRootL(k))
        hU == DiagBcast(FactorHost(BlockUFactor, k, hostBuf), k, hostBuf,
                        mycol = kcol(k), myrow = DiagRootU(k),
                        DiagRootU(k) * npcol + mycol)
        d1 == IF myrow = krow(k)
              THEN [gpuDFBufs EXCEPT ![devBuf] = <<"L", hL[hostBuf]>>]
              ELSE gpuDFBufs
        d2 == IF mycol = kcol(k)
              THEN [d1 EXCEPT ![devBuf] = <<"U", hU[hostBuf]>>]
              ELSE d1
    IN  /\ BlockLFactor' = hL
        /\ BlockUFactor' = hU
        /\ gpuDFBufs' = d2
        /\ uSolveDiag' = IF myrow = krow(k)
                         THEN [uSolveDiag EXCEPT ![k] = d1[devBuf]]
                         ELSE uSolveDiag
        /\ lSolveDiag' = IF mycol = kcol(k)
                         THEN [lSolveDiag EXCEPT ![k] = d2[devBuf]]
                         ELSE lSolveDiag

DiagUPanel(upv, k) ==
    IF myrow = krow(k) THEN [upv EXCEPT ![k].gpuVal = "solved"] ELSE upv

DiagLPanel(lpv, k) ==
    IF mycol = kcol(k) THEN [lpv EXCEPT ![k].gpuVal = "solved"] ELSE lpv

(* -------------------------- dPanelBcastGPU ----------------------------- *)
BcastOps(k, offset) ==
       << Op("dPanelBcastGPU", k, offset) >>
    \o Cond(UidxSendCounts[k] > 0, << Op("BcastUidx", k, offset),
                                      Op("BcastUval", k, offset),
                                      Op("MemcpyUidxD2H", k, offset) >>)
    \o Cond(LidxSendCounts[k] > 0, << Op("BcastLidx", k, offset),
                                      Op("BcastLval", k, offset),
                                      Op("MemcpyLidxD2H", k, offset) >>)

\* mutation: the send count is not tested before the broadcast
RecvDevAlways(buf, cnt, owner, k, offset) ==
    IF ~owner THEN [buf EXCEPT ![offset] = k] ELSE buf

\* mutation: the handle is never re-pointed at the owned panel
RecvDevNoAlias(buf, cnt, owner, k, offset) ==
    IF cnt > 0 THEN [buf EXCEPT ![offset] = k] ELSE buf

\* a non-root receives into the device receive buffers of the slot; the
\* root sends from its owned panel
RecvDev(buf, cnt, owner, k, offset) ==
    IF cnt > 0 /\ ~owner THEN [buf EXCEPT ![offset] = k] ELSE buf

\* cudaMemcpy of the index, device to host, on the receive-buffer handle
RecvD2H(host, dev, cnt, owner, offset) ==
    IF cnt > 0 /\ ~owner THEN [host EXCEPT ![offset] = dev[offset]] ELSE host

\* cudaMemcpy of the index, device to host, on the owned panel
OwnedD2H(pv, cnt, owner, k) ==
    IF cnt > 0 /\ owner THEN [pv EXCEPT ![k].index = pv[k].gpuIndex] ELSE pv

\* upv, lpv: the owned panels when the broadcast starts
PanelBcastU(upv, k, offset) ==
    LET own == (myrow = krow(k))
        cnt == UidxSendCounts[k]
    IN  /\ gpuUidxRecvBufs' = RecvDev(gpuUidxRecvBufs, cnt, own, k, offset)
        /\ gpuUvalRecvBufs' = RecvDev(gpuUvalRecvBufs, cnt, own, k, offset)
        /\ UidxRecvBufs' = RecvD2H(UidxRecvBufs, gpuUidxRecvBufs', cnt, own, offset)
        /\ uPanelVec' = OwnedD2H(upv, cnt, own, k)

PanelBcastL(lpv, k, offset) ==
    LET own == (mycol = kcol(k))
        cnt == LidxSendCounts[k]
    IN  /\ gpuLidxRecvBufs' = RecvDev(gpuLidxRecvBufs, cnt, own, k, offset)
        /\ gpuLvalRecvBufs' = RecvDev(gpuLvalRecvBufs, cnt, own, k, offset)
        /\ LidxRecvBufs' = RecvD2H(LidxRecvBufs, gpuLidxRecvBufs', cnt, own, offset)
        /\ lPanelVec' = OwnedD2H(lpv, cnt, own, k)

(* ------------------------------- Init ---------------------------------- *)
\* state of the process when a scheduler is called, the inputs left open
InitLocal ==
    /\ pc = "entry"
    /\ ret = -1
    /\ info = 0
    /\ topoLvl = 0 /\ k0 = 0 /\ k1 = 0 /\ winSize = 0 /\ winParity = 0
    /\ halfWin = 0 /\ k1_next = 0 /\ oldWinSize = 0 /\ k0_next = 0
    /\ donePanelBcast = <<>> /\ donePanelSolve = <<>>
    /\ localNumChildrenLeft = <<>>
    /\ trace = <<>>
    /\ pending = [s \in Slots |-> {}]
    /\ UidxRecvBufs = [s \in Slots |-> NoNode]
    /\ gpuUidxRecvBufs = [s \in Slots |-> NoNode]
    /\ gpuUvalRecvBufs = [s \in Slots |-> NoNode]
    /\ LidxRecvBufs = [s \in Slots |-> NoNode]
    /\ gpuLidxRecvBufs = [s \in Slots |-> NoNode]
    /\ gpuLvalRecvBufs = [s \in Slots |-> NoNode]
    /\ uPanelVec = [k \in 0..(nsupers - 1) |->
                       [index |-> k, gpuIndex |-> k, gpuVal |-> "orig"]]
    /\ lPanelVec = [k \in 0..(nsupers - 1) |->
                       [index |-> k, gpuIndex |-> k, gpuVal |-> "orig"]]
    /\ BlockLFactor = [s \in FBufIdx |-> NoNode]
    /\ BlockUFactor = [s \in FBufIdx |-> NoNode]
    /\ gpuDFBufs = [s \in FBufIdx |-> <<"none", NoNode>>]
    /\ uSolveDiag = [k \in 0..(nsupers - 1) |-> <<"none", NoNode>>]
    /\ lSolveDiag = [k \in 0..(nsupers - 1) |-> <<"none", NoNode>>]

\* no panel is under construction
PanelIdle ==
    /\ lblocks = <<>> /\ lsub = <<>> /\ isDiagIncluded = 0
    /\ index = <<>> /\ lpc = "none"
    /\ lb = 0 /\ blkIdPtr = 0 /\ pxSumPtr = 0 /\ rowIdxPtr = 0 /\ lsub_ptr = 0

\* no solve kernel is running
KernelIdle ==
    /\ nrhs = 0 /\ Lrows = <<>> /\ fmod = <<>> /\ lsum = {}
    /\ tpc = <<>> /\ tlb = <<>> /\ lsumRead = <<>>

\* wait_bcrd is not running
WaitIdle ==
    /\ flag_rd_q = <<>> /\ d_statusmod = <<>> /\ destCnt = <<>>
    /\ sigHalf = <<>> /\ notRoot = <<>> /\ WAIT_NUM_THREADS = 0
    /\ wi = <<>> /\ fmodDec = <<>> /\ halfRead = <<>> /\ d_flag_mod = <<>>

FwdIdle ==
    /\ tot_threads = 0 /\ d_nfrecvmod3 = 0 /\ qpos = <<>>
    /\ recv_num = 0 /\ finish_num = 0 /\ cur_send_num = 0
    /\ fpc = <<>> /\ fi = <<>> /\ ftodo = <<>> /\ fwd = <<>> /\ direct = <<>>

PermIdle ==
    /\ a_m = 0 /\ a_n = 0 /\ colptr = <<>> /\ rowind = <<>>
    /\ ispec = "none" /\ HAVE_PARMETIS = FALSE /\ gpc = "none" /\ gmsg = ""
    /\ t_colptr = <<>> /\ t_rowind = <<>>
    /\ bnz = 0 /\ b_colptr = <<>> /\ b_rowind = <<>>
    /\ perm_c = <<>> /\ gcalls = <<>>

EndIdle == iSt = 0 /\ maxRows = 0 /\ iEnd = Uninit /\ stRowReads = {}

RestIdle == FwdIdle /\ PermIdle /\ EndIdle

\* none of the other routines is running
OthersIdle == KernelIdle /\ WaitIdle /\ RestIdle

\* every forest, look-ahead depth, send-count pattern and grid position;
\* every diagonal block passes the pivot test, and the lookup of nsupers in
\* the reverse permutation finds "not in the forest"
Init ==
    /\ sched \in {"pipe", "base"}
    /\ nnodes \in 0..MaxNodes
    /\ \E p \in ParentMaps(nnodes) : setree = SetreeOf(p, nnodes)
    /\ numLA \in 0..MaxLA
    /\ \E Z \in SendPatterns(nnodes) :
           /\ UidxSendCounts = SendCountsOf(Z[1])
           /\ LidxSendCounts = SendCountsOf(Z[2])
    /\ myrow \in 0..(nprow - 1)
    /\ mycol \in 0..(npcol - 1)
    /\ nearSingular = {}
    /\ myIpermEnd = -1
    /\ peer = NoPeer
    /\ InitLocal
    /\ PanelIdle
    /\ OthersIdle

(* ---------------- dsparseTreeFactorGPU (pipelined) --------------------- *)
\* mutation: the empty forest is not caught
EmptyForestOff == nnodes < 0

\* if (nnodes < 1) return 1;
EmptyForest == nnodes < 1

\* int_t ik = myIperm[k_parent] of the counting loop: no test of
\* k_parent < nsupers precedes it, so for the parent nsupers of a root it
\* reads the word myIpermEnd
IpermUnguarded(k_parent) ==
    IF k_parent < nsupers THEN myIperm(k_parent) ELSE myIpermEnd

\* localNumChildrenLeft after the counting loop over the node list
InitialChildren ==
    [i \in Pos |->
        Cardinality({c \in Pos :
            LET ik == IpermUnguarded(setree[perm_c_supno(c)])
            IN  ik > -1 /\ ik < nnodes /\ ik = i})]

\* entry: empty forest returns 1, else allocate and count the children
Enter ==
    /\ pc = "entry"
    /\ sched = "pipe"
    /\ IF EmptyForest
       THEN /\ ret' = 1
            /\ pc' = "done"
            /\ UNCHANGED <<locals, flags>>
       ELSE /\ donePanelBcast' = [i \in Pos |-> 0]
            /\ donePanelSolve' = [i \in Pos |-> 0]
            /\ localNumChildrenLeft' = InitialChildren
            /\ topoLvl' = 0
            /\ k0' = eTreeTopLims(0)
            /\ pc' = "rampDiag"
            /\ UNCHANGED <<ret, k1, winSize, winParity, halfWin, k1_next,
                           oldWinSize, k0_next>>
    /\ UNCHANGED <<pvars, xvars>>
    /\ UNCHANGED <<inputs, info, trace, pending, bufs, dbufs>>

\* mutation: the first window takes the whole look-ahead depth
RampWinSizeFull == SUPERLU_MIN(numLA, eTreeTopLims(1))

\* int_t winSize = SUPERLU_MIN(numLA/2, eTreeTopLims[1])
RampWinSize == SUPERLU_MIN(numLA \div 2, eTreeTopLims(1))

\* initial loop: factor every node of topological level 0 on slot 0
RampDiag ==
    /\ pc = "rampDiag"
    /\ IF k0 < eTreeTopLims(topoLvl + 1)
       THEN LET k == perm_c_supno(k0)
            IN  /\ trace' = trace \o DiagOps(k, 0)
                /\ pending' = DiagPending(pending, k, 0)
                /\ uPanelVec' = DiagUPanel(uPanelVec, k)
                /\ lPanelVec' = DiagLPanel(lPanelVec, k)
                /\ info' = DiagInfo(info, k)
                /\ DiagData(k, 0, 0)
                /\ donePanelSolve' = [donePanelSolve EXCEPT ![k0] = 1]
                /\ k0' = k0 + 1
                /\ UNCHANGED <<pc, winSize>>
       ELSE /\ winSize' = RampWinSize
            /\ k0' = eTreeTopLims(topoLvl)
            /\ pc' = "rampBcast"
            /\ UNCHANGED <<trace, pending, uPanelVec, lPanelVec, info,
                           donePanelSolve, dbufs>>
    /\ UNCHANGED <<pvars, xvars>>
    /\ UNCHANGED <<inputs, ret, topoLvl, k1, winParity, halfWin, k1_next,
                   oldWinSize, k0_next, donePanelBcast, localNumChildrenLeft,
                   UidxRecvBufs, gpuUidxRecvBufs, gpuUvalRecvBufs,
                   LidxRecvBufs, gpuLidxRecvBufs, gpuLvalRecvBufs>>

\* initial loop: broadcast the panels of the first window
RampBcast ==
    /\ pc = "rampBcast"
    /\ IF k0 < winSize
       THEN LET k == perm_c_supno(k0)
                offset == k0 % numLA
            IN  /\ IF donePanelBcast[k0] = 0
                   THEN /\ trace' = trace \o BcastOps(k, offset)
                        /\ PanelBcastU(uPanelVec, k, offset)
                        /\ PanelBcastL(lPanelVec, k, offset)
                        /\ donePanelBcast' = [donePanelBcast EXCEPT ![k0] = 1]
                   ELSE UNCHANGED <<trace, bufs, donePanelBcast>>
                /\ k0' = k0 + 1
                /\ UNCHANGED <<pc, k1, winParity, halfWin>>
       ELSE /\ k1' = 0
            /\ winParity' = 0
            /\ halfWin' = numLA \div 2
            /\ pc' = "while"
            /\ UNCHANGED <<k0, trace, bufs, donePanelBcast>>
    /\ UNCHANGED <<pvars, xvars>>
    /\ UNCHANGED <<inputs, ret, info, topoLvl, winSize, k1_next, oldWinSize,
                   k0_next, donePanelSolve, localNumChildrenLeft, pending,
                   dbufs>>

\* while (k1 < nnodes)
While ==
    /\ pc = "while"
    /\ IF k1 < nnodes
       THEN /\ k0' = k1
            /\ pc' = "step1"
            /\ ret' = ret
       ELSE /\ ret' = 0
            /\ pc' = "done"
            /\ k0' = k0
    /\ UNCHANGED <<pvars, xvars>>
    /\ UNCHANGED <<inputs, info, topoLvl, k1, winSize, winParity, halfWin,
                   k1_next, oldWinSize, k0_next, flags, trace, pending, bufs,
                   dbufs>>

\* mutation: both window parities use the same half of the slots
SlotOfNoShift(i, base, w, shifted) == (i - base) % w

\* slot of position i in the window that starts at base and has size w
SlotOf(i, base, w, shifted) ==
    ((i - base) % w) + (IF shifted THEN halfWin ELSE 0)

\* mutation: position test off by one
ChildGateOff(k_parent) ==
    /\ k_parent < nsupers
    /\ myIperm(k_parent) > 1
    /\ myIperm(k_parent) < nnodes

\* the parent is in this forest (and not at position 0)
ChildGate(k_parent) ==
    /\ k_parent < nsupers
    /\ myIperm(k_parent) > 0
    /\ myIperm(k_parent) < nnodes

\* mutation: the child count is not consulted
ParentReadyNoGate(cnt, k0_parent) == topoLvl < maxTopoLevel - 1

\* mutation: level test off by one
ParentReadyOff(cnt, k0_parent) ==
    topoLvl < maxTopoLevel - 2 /\ cnt[k0_parent] = 0

\* mutation: the level of the parent is tested instead of topoLvl
ParentReadyParentLevel(cnt, k0_parent) ==
    TopoLevel(k0_parent) < maxTopoLevel - 1 /\ cnt[k0_parent] = 0

\* the parent's diagonal factorization is issued now
ParentReady(cnt, k0_parent) ==
    topoLvl < maxTopoLevel - 1 /\ cnt[k0_parent] = 0

IssueUpdate(pend, has, k, offset) ==
    IF has THEN [pend EXCEPT ![offset] = @ \cup {k}] ELSE pend

\* mutation: the window start advances by the configured half window
NextStartHalf == k1 + halfWin

\* int_t k1_next = k1 + winSize: start of the next window
NextStart == k1 + winSize

\* step 1: one node of the window ("Doing" is the progress printf)
Step1 ==
    /\ pc = "step1"
    /\ IF k0 < SUPERLU_MIN(nnodes, k1 + winSize)
       THEN LET k == perm_c_supno(k0)
                offset == SlotOf(k0, k1, winSize, winParity % 2 = 1)
                k_parent == setree[k]
                k0_parent == myIperm(k_parent)
                has == HasSends(k)
                gate == ChildGate(k_parent)
                cnt == IF gate
                       THEN [localNumChildrenLeft EXCEPT ![k0_parent] = @ - 1]
                       ELSE localNumChildrenLeft
                fire == gate /\ ParentReady(cnt, k0_parent)
                pend1 == IssueUpdate(pending, has, k, offset)
                pend2 == IF fire THEN DiagPending(pend1, k_parent, 0) ELSE pend1
            IN  /\ trace' = trace
                       \o << Op("Doing", k, offset) >>
                       \o Cond(has, << Op("lookAheadUpdateGPU", k, offset) >>)
                       \o Cond(fire, DiagOps(k_parent, 0))
                       \o Cond(has, << Op("dSchurCompUpdateExcludeOneGPU", k, offset) >>)
                /\ pending' = IssueUpdate(pend2, has, k, offset)
                /\ localNumChildrenLeft' = cnt
                /\ donePanelSolve' = IF fire
                                     THEN [donePanelSolve EXCEPT ![k0_parent] = 1]
                                     ELSE donePanelSolve
                /\ uPanelVec' = IF fire THEN DiagUPanel(uPanelVec, k_parent)
                                ELSE uPanelVec
                /\ lPanelVec' = IF fire THEN DiagLPanel(lPanelVec, k_parent)
                                ELSE lPanelVec
                /\ info' = IF fire THEN DiagInfo(info, k_parent) ELSE info
                /\ IF fire THEN DiagData(k_parent, 0, 0) ELSE UNCHANGED dbufs
                /\ k0' = k0 + 1
                /\ UNCHANGED <<pc, k1_next, oldWinSize, k0_next>>
       ELSE /\ k1_next' = NextStart
            /\ oldWinSize' = winSize
            /\ k0_next' = NextStart
            /\ pc' = "scan"
            /\ UNCHANGED <<k0, trace, pending, localNumChildrenLeft,
                           donePanelSolve, uPanelVec, lPanelVec, info, dbufs>>
    /\ UNCHANGED <<pvars, xvars>>
    /\ UNCHANGED <<inputs, ret, topoLvl, k1, winSize, winParity, halfWin,
                   donePanelBcast,
                   UidxRecvBufs, gpuUidxRecvBufs, gpuUvalRecvBufs,
                   LidxRecvBufs, gpuLidxRecvBufs, gpuLvalRecvBufs>>

\* mutation: the scan does not look at the child count
ScanGateNone(i) == TRUE

\* the next-window scan broadcasts a node only when no child is left
ScanGate(i) == localNumChildrenLeft[i] = 0

\* mutation: the negation of the parity test is dropped
NextShiftSame == winParity % 2 = 1

\* if (!(winParity % 2)) offset_next += halfWin: the next window takes the
\* half of the slots the current one does not use
NextShift == winParity % 2 = 0

\* step 2: one node of the next window
Scan ==
    /\ pc = "scan"
    /\ IF k0_next < SUPERLU_MIN(nnodes, k1_next + winSize)
       THEN LET k_next == perm_c_supno(k0_next)
            IN  IF ScanGate(k0_next)
                THEN LET offset_next ==
                             SlotOf(k0_next, k1_next, winSize, NextShift)
                     IN  /\ trace' = trace \o BcastOps(k_next, offset_next)
                                       \o << Op("Trying", k_next, offset_next) >>
                         /\ PanelBcastU(uPanelVec, k_next, offset_next)
                         /\ PanelBcastL(lPanelVec, k_next, offset_next)
                         /\ donePanelBcast' =
                                [donePanelBcast EXCEPT ![k0_next] = 1]
                         /\ k0_next' = k0_next + 1
                         /\ UNCHANGED <<pc, winSize, k0>>
                ELSE /\ winSize' = k0_next - k1_next
                     /\ k0' = k1
                     /\ pc' = "sync"
                     /\ UNCHANGED <<trace, bufs, donePanelBcast, k0_next>>
       ELSE /\ k0' = k1
            /\ pc' = "sync"
            /\ UNCHANGED <<trace, bufs, donePanelBcast, k0_next, winSize>>
    /\ UNCHANGED <<pvars, xvars>>
    /\ UNCHANGED <<inputs, ret, info, topoLvl, k1, winParity, halfWin, k1_next,
                   oldWinSize, donePanelSolve, localNumChildrenLeft, pending,
                   dbufs>>

\* mutation: the synchronization loop uses the shrunk window size
SyncWinSizeStale == winSize

\* window size used by the synchronization loop
SyncWinSize == oldWinSize

\* step 3: synchronize the stream of one node of the processed window, and
\* after the last one advance k1 and toggle the parity (only winParity % 2
\* is ever read, so the parity is what is kept)
Sync ==
    /\ pc = "sync"
    /\ IF k0 < SUPERLU_MIN(nnodes, k1 + SyncWinSize)
       THEN LET k == perm_c_supno(k0)
                offset == SlotOf(k0, k1, SyncWinSize, winParity % 2 = 1)
            IN  /\ IF HasSends(k)
                   THEN /\ trace' = trace
                              \o << Op("cudaStreamSynchronize", k, offset) >>
                        /\ pending' = [pending EXCEPT ![offset] = {}]
                   ELSE UNCHANGED <<trace, pending>>
                /\ k0' = k0 + 1
                /\ UNCHANGED <<pc, k1, winParity>>
       ELSE /\ k1' = k1_next
            /\ winParity' = (winParity + 1) % 2
            /\ pc' = "while"
            /\ UNCHANGED <<k0, trace, pending>>
    /\ UNCHANGED <<pvars, xvars>>
    /\ UNCHANGED <<inputs, ret, info, topoLvl, winSize, halfWin, k1_next,
                   oldWinSize, k0_next, flags, bufs, dbufs>>

Pipelined == Enter \/ RampDiag \/ RampBcast \/ While \/ Step1 \/ Scan \/ Sync

(* ------------------- dsparseTreeFactorGPUBaseline ---------------------- *)
BaseEnter ==
    /\ pc = "entry"
    /\ sched = "base"
    /\ IF EmptyForest
       THEN /\ ret' = 1
            /\ pc' = "done"
       ELSE /\ ret' = ret
            /\ pc' = "baseLevel"
    /\ topoLvl' = 0
    /\ UNCHANGED <<pvars, xvars>>
    /\ UNCHANGED <<inputs, info, k0, k1, winSize, winParity, halfWin, k1_next,
                   oldWinSize, k0_next, flags, trace, pending, bufs, dbufs>>

\* mutation: the walk over a level starts at any of its nodes
BaseLevelAnyStart ==
    /\ pc = "baseLevel"
    /\ IF topoLvl < maxTopoLevel
       THEN /\ k0' \in eTreeTopLims(topoLvl)..(eTreeTopLims(topoLvl + 1) - 1)
            /\ pc' = "baseNode"
            /\ ret' = ret
       ELSE /\ ret' = 0
            /\ pc' = "done"
            /\ k0' = k0
    /\ UNCHANGED <<pvars, xvars>>
    /\ UNCHANGED <<inputs, info, topoLvl, k1, winSize, winParity, halfWin,
                   k1_next, oldWinSize, k0_next, flags, trace, pending, bufs,
                   dbufs>>

\* for (topoLvl = 0; topoLvl < maxTopoLevel; ++topoLvl)
BaseLevel ==
    /\ pc = "baseLevel"
    /\ IF topoLvl < maxTopoLevel
       THEN /\ k0' = eTreeTopLims(topoLvl)
            /\ pc' = "baseNode"
            /\ ret' = ret
       ELSE /\ ret' = 0
            /\ pc' = "done"
            /\ k0' = k0
    /\ UNCHANGED <<pvars, xvars>>
    /\ UNCHANGED <<inputs, info, topoLvl, k1, winSize, winParity, halfWin,
                   k1_next, oldWinSize, k0_next, flags, trace, pending, bufs,
                   dbufs>>

\* dSchurComplementUpdateGPU synchronizes its stream before it returns
\* ("there is sync inside the kernel")
SchurSync(pend, streamId) == [pend EXCEPT ![streamId] = {}]

\* mutation: the panels are broadcast before the diagonal block is factored
BaseOpsBcastFirst(k, offset) ==
       << Op("PanelBcast", k, 0) >>
    \o Cond(UidxSendCounts[k] > 0, << Op("BcastUidx", k, 0),
                                      Op("BcastUval", k, 0),
                                      Op("MemcpyUidxD2H", k, 0) >>)
    \o Cond(LidxSendCounts[k] > 0, << Op("BcastLidx", k, 0),
                                      Op("BcastLval", k, 0),
                                      Op("MemcpyLidxD2H", k, 0) >>)
    \o << Op("DiagFactorPanelSolve", k, offset) >>
    \o DiagBody(k, offset, 0)
    \o Cond(HasSends(k), << Op("dSchurComplementUpdateGPU", k, 0) >>)

\* calls issued for one node: diagonal factorization, diagonal broadcast,
\* panel solve (host buffer k0 - k_st, device buffer and stream 0), panel
\* broadcast into slot 0, full Schur update on stream 0
BaseOps(k, offset) ==
       << Op("DiagFactorPanelSolve", k, offset) >>
    \o DiagBody(k, offset, 0)
    \o << Op("PanelBcast", k, 0) >>
    \o Cond(UidxSendCounts[k] > 0, << Op("BcastUidx", k, 0),
                                      Op("BcastUval", k, 0),
                                      Op("MemcpyUidxD2H", k, 0) >>)
    \o Cond(LidxSendCounts[k] > 0, << Op("BcastLidx", k, 0),
                                      Op("BcastLval", k, 0),
                                      Op("MemcpyLidxD2H", k, 0) >>)
    \o Cond(HasSends(k), << Op("dSchurComplementUpdateGPU", k, 0) >>)

\* one node of the current level, fully synchronous
BaseNode ==
    /\ pc = "baseNode"
    /\ IF k0 < eTreeTopLims(topoLvl + 1)
       THEN LET k == perm_c_supno(k0)
                offset == k0 - eTreeTopLims(topoLvl)
            IN  /\ trace' = trace \o BaseOps(k, offset)
                /\ PanelBcastU(DiagUPanel(uPanelVec, k), k, 0)
                /\ PanelBcastL(DiagLPanel(lPanelVec, k), k, 0)
                /\ pending' = SchurSync(IssueUpdate(DiagPending(pending, k, 0),
                                                    HasSends(k), k, 0), 0)
                /\ info' = DiagInfo(info, k)
                /\ DiagData(k, offset, 0)
                /\ k0' = k0 + 1
                /\ UNCHANGED <<pc, topoLvl>>
       ELSE /\ topoLvl' = topoLvl + 1
            /\ pc' = "baseLevel"
            /\ UNCHANGED <<k0, trace, pending, bufs, info, dbufs>>
    /\ UNCHANGED <<pvars, xvars>>
    /\ UNCHANGED <<inputs, ret, k1, winSize, winParity, halfWin, k1_next,
                   oldWinSize, k0_next, flags>>

Baseline == BaseEnter \/ BaseLevel \/ BaseNode

(* -------------------------- specification ------------------------------ *)
Next == Pipelined \/ Baseline

Spec == Init /\ [][Next]_vars

\* The pipelined scheduler alone, seen from process (0, 0), under the
\* scheduling the code has: the single control thread of the process keeps
\* running until it returns.  The control flow of the scheduler never reads
\* the grid coordinates.
InitPipe == Init /\ sched = "pipe" /\ myrow = 0 /\ mycol = 0

PipeSpec == InitPipe /\ [][Pipelined]_vars /\ WF_vars(Pipelined)

\* The baseline scheduler alone, on every forest, send-count pattern and
\* grid position of Init; it never reads the look-ahead depth
InitBase == Init /\ sched = "base" /\ numLA = MaxLA

BaseSpec == InitBase /\ [][Baseline]_vars

\* Both schedulers with pivot failures: any set of at most two supernodes of
\* the forest fails the pivot test; every panel is non-empty and the
\* look-ahead depth is at least 2.
InitInfo ==
    /\ sched \in {"pipe", "base"}
    /\ nnodes \in 1..MaxNodes
    /\ \E p \in ParentMaps(nnodes) : setree = SetreeOf(p, nnodes)
    /\ numLA \in 2..MaxLA
    /\ UidxSendCounts = SendCountsOf({})
    /\ LidxSendCounts = SendCountsOf({})
    /\ myrow \in 0..(nprow - 1)
    /\ mycol \in 0..(npcol - 1)
    /\ nearSingular \in {S \in SUBSET {perm_c_supno(i) : i \in Pos} :
                             Cardinality(S) <= 2}
    /\ myIpermEnd = -1
    /\ peer = NoPeer
    /\ InitLocal
    /\ PanelIdle
    /\ OthersIdle

InfoSpec == InitInfo /\ [][Next]_vars

\* The pipelined scheduler when the reverse permutation has one entry per
\* supernode (0 .. nsupers - 1): the read of myIperm[nsupers] is out of
\* bounds and returns whatever word follows the table, a value outside the
\* node list (-1, nnodes) or any position of it
InitOob ==
    /\ sched = "pipe"
    /\ nnodes \in 1..MaxNodes
    /\ \E p \in ParentMaps(nnodes) : setree = SetreeOf(p, nnodes)
    /\ numLA \in 2..MaxLA
    /\ \E Z \in SendPatterns(nnodes) :
           /\ UidxSendCounts = SendCountsOf(Z[1])
           /\ LidxSendCounts = SendCountsOf(Z[2])
    /\ myrow = 0 /\ mycol = 0
    /\ nearSingular = {}
    /\ myIpermEnd \in -1..nnodes
    /\ peer = NoPeer
    /\ InitLocal
    /\ PanelIdle
    /\ OthersIdle

OobSpec == InitOob /\ [][Pipelined]_vars

(* ---------------- xlpanel_t<Ftype>::xlpanel_t (constructor) ------------ *)
\* first row of supernode g: every supernode has MaxRows rows
xsup(g) == g * MaxRows

SuperSize(k) == xsup(k + 1) - xsup(k)

\* the rows of one block as lsub lists them: the first n rows of the block
RECURSIVE BlockRows(_, _, _)
BlockRows(g, n, r) ==
    IF r >= n THEN <<>> ELSE << xsup(g) + r >> \o BlockRows(g, n, r + 1)

\* lsub of a block column: per block the descriptor (global block number,
\* number of rows) followed by the row subscripts
RECURSIVE LsubBody(_, _)
LsubBody(bl, i) ==
    IF i > Len(bl) THEN <<>>
    ELSE << bl[i][1], bl[i][2] >> \o BlockRows(bl[i][1], bl[i][2], 0)
             \o LsubBody(bl, i + 1)

RECURSIVE RowsFrom(_, _)
RowsFrom(bl, i) == IF i > Len(bl) THEN 0 ELSE bl[i][2] + RowsFrom(bl, i + 1)

\* header: number of blocks, number of row subscripts
LsubOf(bl) == << Len(bl), RowsFrom(bl, 1) >> \o LsubBody(bl, 1)

\* block lists of a block column of supernode FirstSup: distinct global
\* block numbers in the order the distribution stored them, each block
\* with 1..MaxRows rows
BlockLists ==
    UNION {{bl \in [1..n -> (FirstSup..(FirstSup + MaxBlocks)) \X (1..MaxRows)] :
               \A i, j \in 1..n : i # j => bl[i][1] # bl[j][1]} : n \in 0..MaxBlocks}

\* C arrays are 0-based
lsubAt(i) == lsub[i + 1]

\* the scheduler is not running
SchedulerIdle ==
    /\ sched = "none" /\ nnodes = 0 /\ setree = <<>> /\ numLA = 0
    /\ UidxSendCounts = <<>> /\ LidxSendCounts = <<>>
    /\ myrow = 0 /\ mycol = 0 /\ nearSingular = {} /\ myIpermEnd = -1
    /\ peer = NoPeer
    /\ InitLocal

PanelInit ==
    /\ SchedulerIdle
    /\ OthersIdle
    /\ lblocks \in BlockLists
    /\ lsub = LsubOf(lblocks)
    /\ isDiagIncluded \in {0, 1}
    /\ index = <<>> /\ lpc = "ctor"
    /\ lb = 0 /\ blkIdPtr = 0 /\ pxSumPtr = 0 /\ rowIdxPtr = 0 /\ lsub_ptr = 0

\* allocation and header of the index, start of the prefix sum, pointers
XlpanelHeader ==
    /\ lpc = "ctor"
    /\ LET nlb == lsubAt(0)
           nzrow == lsubAt(1)
           lIndexSize == LPANEL_HEADER_SIZE + 2 * nlb + 1 + nzrow
       IN  /\ index' = [i \in 0..(lIndexSize - 1) |->
                           IF i = 0 THEN nlb
                           ELSE IF i = 1 THEN nzrow
                           ELSE IF i = 2 THEN isDiagIncluded
                           ELSE IF i = 3 THEN SuperSize(FirstSup)
                           ELSE IF i = LPANEL_HEADER_SIZE + nlb THEN 0
                           ELSE Uninit]
           /\ blkIdPtr' = LPANEL_HEADER_SIZE
           /\ pxSumPtr' = LPANEL_HEADER_SIZE + nlb + 1
           /\ rowIdxPtr' = LPANEL_HEADER_SIZE + 2 * nlb + 1
    /\ lsub_ptr' = BC_HEADER
    /\ lb' = 0
    /\ lpc' = "loop"
    /\ UNCHANGED <<lblocks, lsub, isDiagIncluded>>
    /\ UNCHANGED <<svars, xvars>>

\* mutation: the running sum is not carried over
PxSumNoCarry(prev, nrows) == nrows

\* index[pxSumPtr] = nrows + index[pxSumPtr - 1]
PxSum(prev, nrows) == nrows + prev

\* one iteration of the block loop, the loop over the rows included
XlpanelBlock ==
    /\ lpc = "loop"
    /\ lb < lsubAt(0)
    /\ LET global_id == lsubAt(lsub_ptr)
           nrows == lsubAt(lsub_ptr + 1)
           firstRow == xsup(global_id)
       IN  /\ index' = [i \in DOMAIN index |->
                           IF i = blkIdPtr THEN global_id
                           ELSE IF i = pxSumPtr
                                THEN PxSum(index[pxSumPtr - 1], nrows)
                           ELSE IF i >= rowIdxPtr /\ i < rowIdxPtr + nrows
                                THEN lsubAt(lsub_ptr + LB_DESCRIPTOR
                                            + (i - rowIdxPtr)) - firstRow
                           ELSE index[i]]
           /\ blkIdPtr' = blkIdPtr + 1
           /\ pxSumPtr' = pxSumPtr + 1
           /\ rowIdxPtr' = rowIdxPtr + nrows
           /\ lsub_ptr' = lsub_ptr + LB_DESCRIPTOR + nrows
    /\ lb' = lb + 1
    /\ UNCHANGED <<lblocks, lsub, isDiagIncluded, lpc>>
    /\ UNCHANGED <<svars, xvars>>

XlpanelReturn ==
    /\ lpc = "loop"
    /\ lb >= lsubAt(0)
    /\ lpc' = "built"
    /\ UNCHANGED <<lblocks, lsub, isDiagIncluded, index, lb, blkIdPtr, pxSumPtr,
                   rowIdxPtr, lsub_ptr>>
    /\ UNCHANGED <<svars, xvars>>

Xlpanel == XlpanelHeader \/ XlpanelBlock \/ XlpanelReturn

PanelSpec == PanelInit /\ [][Xlpanel]_vars

\* accessors of the built panel index
nblocks == index[0]
nzrows == index[1]
gid(i) == index[LPANEL_HEADER_SIZE + i]
stRow(i) == index[LPANEL_HEADER_SIZE + nblocks + i]

(* ---------------------- xlpanel_t::getEndBlock ------------------------- *)
\* the loop test with the bound on the rows left out
KeepGoingAnyRows(ii, st, mx) == ii < nblocks

\* stRow(ii) - stRow(iSt) <= maxRows && ii < nlb
KeepGoing(ii, st, mx) == stRow(ii) - stRow(st) <= mx /\ ii < nblocks

\* while (...) ii++; with the arguments of stRow that are evaluated
RECURSIVE EndLoop(_, _, _, _)
EndLoop(ii, st, mx, reads) ==
    IF KeepGoing(ii, st, mx)
    THEN EndLoop(ii + 1, st, mx, reads \cup {ii, st})
    ELSE [ii |-> ii, reads |-> reads \cup {ii, st}]

getEndBlock(st, mx) ==
    IF st >= nblocks
    THEN [iEnd |-> nblocks, reads |-> {}]
    ELSE LET l == EndLoop(st + 1, st, mx, {})
         IN  [iEnd |-> IF stRow(l.ii) - stRow(st) > mx THEN l.ii - 1 ELSE l.ii,
              reads |-> l.reads]

\* a call panel.getEndBlock(st, mx) on the built panel
GetEndBlock(st, mx) ==
    /\ lpc = "built"
    /\ iSt' = st
    /\ maxRows' = mx
    /\ iEnd' = getEndBlock(st, mx).iEnd
    /\ stRowReads' = getEndBlock(st, mx).reads
    /\ lpc' = "asked"
    /\ UNCHANGED <<lblocks, lsub, isDiagIncluded, index, lb, blkIdPtr, pxSumPtr,
                   rowIdxPtr, lsub_ptr>>
    /\ UNCHANGED <<svars, kvars, wvars, fvars, gvars>>

EndBlock ==
    \/ XlpanelHeader
    \/ XlpanelBlock
    \/ XlpanelReturn
    \/ /\ lpc = "built"
       /\ \E st \in 0..(nblocks + 1), mx \in 0..(nzrows + 1) :
              GetEndBlock(st, mx)

EndBlockSpec == PanelInit /\ [][EndBlock]_vars

(* --------------- dlsum_fmod_inv_gpu_mrhs (single-GPU L-solve) ---------- *)
\* One process (procs == 1): every block column has its diagonal block
\* here, thread block bid works on block column bid, and all thread blocks
\* of the launch are resident.  NThreads threads per thread block; every L
\* block has NThreads rows, so that each thread owns one row of each block.
NCols == 3
NThreads == 2
MaxRhs == 2

Cols == 0..(NCols - 1)
Tids == 0..(NThreads - 1)
Thr == Cols \X Tids

\* off-diagonal L blocks lie below the diagonal
LStructs == {f \in [Cols -> SUBSET Cols] : \A k \in Cols : \A r \in f[k] : r > k}

\* nlb = lsub[0] - 1: number of off-diagonal blocks of block column k
nlb(k) == Cardinality(Lrows[k])

\* ik = lsub[lptr1_tmp]: block row of the l-th L block of column k
Lblk(k, l) ==
    CHOOSE r \in Lrows[k] : Cardinality({q \in Lrows[k] : q < r}) = l

\* thread that owns the last row of each L block: the one that passes
\* i == nbrow + lsub[lptr1_tmp + 1] - 1
LastRowTid == NThreads - 1

\* the atomicAdd calls of thread t for its row of the block (k, r), one per
\* right-hand side
Contribution(k, r, t) == {<<k, r, t, j>> : j \in 0..(nrhs - 1)}

\* every contribution the L blocks of this process make to block row r
AllContributions(r) ==
    UNION {Contribution(k, r, t) : k \in {c \in Cols : r \in Lrows[c]}, t \in Tids}

KernelInit ==
    /\ SchedulerIdle
    /\ PanelIdle
    /\ nrhs \in 1..MaxRhs
    /\ Lrows \in LStructs
    /\ fmod = [r \in Cols |-> Cardinality({k \in Cols : r \in Lrows[k]})]
    /\ lsum = {}
    /\ tpc = [th \in Thr |-> IF th[2] = 0 THEN "spin" ELSE "bar1"]
    /\ tlb = [th \in Thr |-> 0]
    /\ lsumRead = [th \in Thr |-> [read |-> FALSE, fmod |-> 0, adds |-> {}]]
    /\ WaitIdle /\ RestIdle

\* the __syncthreads() a thread can wait at: after the spin loop, after the
\* triangular solve, after the atomicAdd loop and after the atomicSub loop
\* of nrhs == 1, inside gemm_device_dlsum_fmod, and at the end of if (nlb > 0)
BarrierNames == {"bar1", "bar2", "bar3", "bar4", "gemm", "bar5"}

\* where thread t of thread block k continues after the barrier b
AfterBarrier(b, k, t) ==
    IF b = "bar1" THEN "read"
    ELSE IF b = "bar2"
         THEN IF nlb(k) = 0 THEN "done"
              ELSE IF nrhs = 1 THEN "add" ELSE "gemm"
    ELSE IF b = "bar3" THEN IF t = LastRowTid THEN "sub" ELSE "bar4"
    ELSE IF b = "gemm" THEN "addm"
    ELSE "done"

\* do { tmp = fmod[lib]; __threadfence(); } while (tmp > 0), thread 0 only
SpinWait(k) ==
    /\ tpc[<<k, 0>>] = "spin"
    /\ fmod[k] <= 0
    /\ tpc' = [tpc EXCEPT ![<<k, 0>>] = "bar1"]
    /\ UNCHANGED <<nrhs, Lrows, fmod, lsum, tlb, lsumRead>>
    /\ UNCHANGED <<svars, pvars, wvars, yvars>>

\* __syncthreads(): all threads of the thread block have arrived
SyncThreads(k) ==
    /\ \E b \in BarrierNames :
           /\ \A t \in Tids : tpc[<<k, t>>] = b
           /\ tpc' = [th \in Thr |->
                         IF th[1] = k THEN AfterBarrier(b, k, th[2])
                         ELSE tpc[th]]
    /\ UNCHANGED <<nrhs, Lrows, fmod, lsum, tlb, lsumRead>>
    /\ UNCHANGED <<svars, pvars, wvars, yvars>>

\* x[i + ii + j*knsupc] += lsum[i + il + j*knsupc] for the rows of thread t
ReadLsum(k, t) ==
    /\ tpc[<<k, t>>] = "read"
    /\ lsumRead' = [lsumRead EXCEPT ![<<k, t>>] =
                       [read |-> TRUE, fmod |-> fmod[k],
                        adds |-> {c \in lsum : c[2] = k}]]
    /\ tpc' = [tpc EXCEPT ![<<k, t>>] = "bar2"]
    /\ UNCHANGED <<nrhs, Lrows, fmod, lsum, tlb>>
    /\ UNCHANGED <<svars, pvars, wvars, yvars>>

\* the position after the block tlb of the loop for (lb = 0; lb < nlb; lb++)
NextBlock(k, t) ==
    IF tlb[<<k, t>>] + 1 < nlb(k)
    THEN /\ tlb' = [tlb EXCEPT ![<<k, t>>] = @ + 1]
         /\ tpc' = [tpc EXCEPT ![<<k, t>>] = "gemm"]
    ELSE /\ tlb' = [tlb EXCEPT ![<<k, t>>] = 0]
         /\ tpc' = [tpc EXCEPT ![<<k, t>>] = "bar5"]

\* atomicAdd(&lsum[il + irow + j*iknsupc], ...) of thread t for its row of
\* the current L block, in the loop of nrhs == 1 and in that of nrhs > 1
AtomicAdd(k, t) ==
    /\ tpc[<<k, t>>] \in {"add", "addm"}
    /\ lsum' = lsum \cup Contribution(k, Lblk(k, tlb[<<k, t>>]), t)
    /\ IF tpc[<<k, t>>] = "add"
       THEN IF tlb[<<k, t>>] + 1 < nlb(k)
            THEN /\ tlb' = [tlb EXCEPT ![<<k, t>>] = @ + 1]
                 /\ tpc' = tpc
            ELSE /\ tlb' = [tlb EXCEPT ![<<k, t>>] = 0]
                 /\ tpc' = [tpc EXCEPT ![<<k, t>>] = "bar3"]
       ELSE IF t = 0
            THEN /\ tpc' = [tpc EXCEPT ![<<k, t>>] = "subm"]
                 /\ tlb' = tlb
            ELSE NextBlock(k, t)
    /\ UNCHANGED <<nrhs, Lrows, fmod, lsumRead>>
    /\ UNCHANGED <<svars, pvars, wvars, yvars>>

\* fmod_tmp = atomicSub(&fmod[lk*aln_i], 1) for the current L block: by the
\* owner of the block's last row for nrhs == 1, by thread 0 for nrhs > 1
AtomicSub(k, t) ==
    /\ tpc[<<k, t>>] \in {"sub", "subm"}
    /\ fmod' = [fmod EXCEPT ![Lblk(k, tlb[<<k, t>>])] = @ - 1]
    /\ IF tpc[<<k, t>>] = "sub"
       THEN IF tlb[<<k, t>>] + 1 < nlb(k)
            THEN /\ tlb' = [tlb EXCEPT ![<<k, t>>] = @ + 1]
                 /\ tpc' = tpc
            ELSE /\ tlb' = [tlb EXCEPT ![<<k, t>>] = 0]
                 /\ tpc' = [tpc EXCEPT ![<<k, t>>] = "bar4"]
       ELSE NextBlock(k, t)
    /\ UNCHANGED <<nrhs, Lrows, lsum, lsumRead>>
    /\ UNCHANGED <<svars, pvars, wvars, yvars>>

Lsolve ==
    \E k \in Cols :
        \/ SpinWait(k)
        \/ SyncThreads(k)
        \/ \E t \in Tids : ReadLsum(k, t)
        \/ \E t \in Tids : AtomicAdd(k, t)
        \/ \E t \in Tids : AtomicSub(k, t)

LsolveSpec == KernelInit /\ [][Lsolve]_vars

(* ------------------- wait_bcrd, bid == 1 (RD recv) --------------------- *)
\* NRecv local block rows, every one of which expects reduction messages:
\* d_nfrecvmod[1] = NRecv, d_colnummod[i] = i, d_recv_cnt[lib] = destCnt[lib]
NRecv == 2

RecvRows == 0..(NRecv - 1)
FlagIdx == 0..(2 * NRecv - 1)
WaitTids == 0..(WAIT_NUM_THREADS - 1)

d_colnummod(i) == i
d_recv_cnt(lib) == destCnt[lib]

\* the two schedulers are not running; the grid position is left open
SchedulerOff ==
    /\ sched = "none" /\ nnodes = 0 /\ setree = <<>> /\ numLA = 0
    /\ UidxSendCounts = <<>> /\ LidxSendCounts = <<>>
    /\ nearSingular = {} /\ myIpermEnd = -1
    /\ peer = NoPeer
    /\ InitLocal

WaitInit ==
    /\ SchedulerOff
    /\ myrow \in 0..(nprow - 1) /\ mycol = 0
    /\ PanelIdle
    /\ Lrows = <<>> /\ lsum = {} /\ tpc = <<>> /\ tlb = <<>> /\ lsumRead = <<>>
    /\ RestIdle
    /\ nrhs \in 1..MaxRhs
    /\ destCnt \in [RecvRows -> {1, 2}]
    /\ sigHalf \in [RecvRows -> {0, 1}]
    /\ notRoot \in [RecvRows -> BOOLEAN]
    /\ WAIT_NUM_THREADS \in 1..NRecv
    \* the messages, and possibly one local modification, are still to come
    /\ \E more \in {0, 1} : fmod = [lib \in RecvRows |-> destCnt[lib] + more]
    /\ flag_rd_q = [i \in FlagIdx |-> 0]
    /\ d_statusmod = [i \in FlagIdx |-> 0]
    /\ wi = [t \in WaitTids |-> 0]
    /\ fmodDec = [lib \in RecvRows |-> 0]
    /\ halfRead = [lib \in RecvRows |-> {}]
    /\ d_flag_mod = [i \in 0..NRecv |-> IF i = 0 THEN 0 ELSE Uninit]

\* halves of the row's receive buffer that its children signal: both for
\* two children, the one of the child's myIdx parity for a single child
SignalledHalves(lib) == IF destCnt[lib] = 2 THEN {0, 1} ELSE {sigHalf[lib]}

\* a child of row lib has put its partial sum into half h of the row's
\* receive buffer and set the signal flag (C_RdTree_forwardMessage*_Device
\* on the child's side)
Arrive(lib, h) ==
    /\ WAIT_NUM_THREADS > 0
    /\ h \in SignalledHalves(lib)
    /\ flag_rd_q[2 * lib + h] = 0
    /\ flag_rd_q' = [flag_rd_q EXCEPT ![2 * lib + h] = 1]
    /\ UNCHANGED <<d_statusmod, destCnt, sigHalf, notRoot, WAIT_NUM_THREADS,
                   wi, fmodDec, halfRead, d_flag_mod>>
    /\ UNCHANGED <<svars, pvars, kvars, yvars>>

\* if (WAIT_NUM_THREADS >= d_nfrecvmod[1]): one thread waits for one column
OnePerColumn == WAIT_NUM_THREADS >= NRecv

\* d_mynummod[tid], d_mymaskstartmod[tid]: the columns of thread tid when a
\* thread waits for several columns
d_mynummod(tid) ==
    NRecv \div WAIT_NUM_THREADS
        + (IF tid < NRecv % WAIT_NUM_THREADS THEN 1 ELSE 0)

RECURSIVE d_mymaskstartmod(_)
d_mymaskstartmod(tid) ==
    IF tid = 0 THEN 0 ELSE d_mymaskstartmod(tid - 1) + d_mynummod(tid - 1)

MyCols(tid) ==
    IF OnePerColumn THEN {tid} \cap RecvRows
    ELSE {d_colnummod(i) :
             i \in d_mymaskstartmod(tid)..(d_mymaskstartmod(tid) + d_mynummod(tid) - 1)}

RECURSIVE SumRecvCnt(_)
SumRecvCnt(S) ==
    IF S = {} THEN 0
    ELSE LET c == CHOOSE x \in S : TRUE IN d_recv_cnt(c) + SumRecvCnt(S \ {c})

\* d_recv_cnt[d_colnummod[tid]] or d_msgnum[tid]: bound of the wait loop
d_msgnum(tid) == SumRecvCnt(MyCols(tid))

\* the flags nvshmem_uint64_wait_until_any looks at for thread tid
WaitMask(tid) ==
    IF OnePerColumn
    THEN {d_colnummod(tid) * 2, d_colnummod(tid) * 2 + 1} \cap FlagIdx
    ELSE LET first == d_colnummod(d_mymaskstartmod(tid))
             last == d_colnummod(d_mymaskstartmod(tid) + d_mynummod(tid) - 1)
         IN  (first * 2)..(first * 2 + (last - first + 1) * 2 - 1)

\* the flag a single-child row tests to pick the half of ready_lsum:
\* flag_rd_q[lib*2 + 1] in the first branch, flag_rd_q[k*2 + 1] with the
\* global block row k = myrow + lib*nprow in the second
HalfFlag(lib) ==
    IF OnePerColumn THEN lib * 2 + 1 ELSE (myrow + lib * nprow) * 2 + 1

\* values the test of that flag can find; outside the 2*NRecv flags of this
\* process the word read is not one of the model's
HalfFlagValues(lib) ==
    IF HalfFlag(lib) \in FlagIdx THEN {flag_rd_q[HalfFlag(lib)]} ELSE {0, 1}

\* number of atomicSub calls on fmod[lib] once all messages of the row are
\* in: for two children the call is inside RHS_ITERATE(j) of each half, for
\* a single child after it
SubCalls(cnt) == IF cnt = 2 THEN cnt * nrhs ELSE 1

\* one iteration of the wait loop of thread tid
Recv(tid) ==
    /\ tid \in WaitTids
    /\ wi[tid] < d_msgnum(tid)
    /\ \E idx \in WaitMask(tid) :
           /\ flag_rd_q[idx] = 1
           /\ d_statusmod[idx] = 0
           /\ LET st == [d_statusmod EXCEPT ![idx] = 1]
                  lib == idx \div 2
                  cnt == destCnt[lib]
              IN  /\ d_statusmod' = st
                  /\ IF st[lib * 2] + st[lib * 2 + 1] = cnt
                     THEN \E fl \in HalfFlagValues(lib) :
                            LET ii == IF fl = 1 THEN 1 ELSE 0
                                fmod_tmp == fmod[lib] - SubCalls(cnt) + 1
                            IN  /\ halfRead' =
                                       [halfRead EXCEPT ![lib] =
                                           IF cnt = 2 THEN {0, 1} ELSE {ii}]
                                /\ fmod' = [fmod EXCEPT ![lib] = @ - SubCalls(cnt)]
                                /\ fmodDec' = [fmodDec EXCEPT ![lib] = @ + SubCalls(cnt)]
                                /\ IF fmod_tmp = 1 /\ notRoot[lib]
                                   THEN d_flag_mod' =
                                            [d_flag_mod EXCEPT
                                                ![0] = @ + 1,
                                                ![d_flag_mod[0] + 1] = lib]
                                   ELSE d_flag_mod' = d_flag_mod
                     ELSE UNCHANGED <<halfRead, fmod, fmodDec, d_flag_mod>>
    /\ wi' = [wi EXCEPT ![tid] = @ + 1]
    /\ UNCHANGED <<flag_rd_q, destCnt, sigHalf, notRoot, WAIT_NUM_THREADS>>
    /\ UNCHANGED <<nrhs, Lrows, lsum, tpc, tlb, lsumRead>>
    /\ UNCHANGED <<svars, pvars, yvars>>

WaitRecv ==
    \/ \E lib \in RecvRows, h \in {0, 1} : Arrive(lib, h)
    \/ \E tid \in 0..(NRecv - 1) : Recv(tid)

WaitRecvSpec == WaitInit /\ [][WaitRecv]_vars

(* ------------ wait_bcrd, bid == 2 (RD forward) and its producers ------- *)
\* Thread block 2 of wait_bcrd forwards the block rows that the producers
\* (the solve kernel and thread block 1) queue in d_flag_mod.  Every row of
\* FRows is queued once; d_nfrecvmod[3] is their number.  Of a block of more
\* than MaxQueue threads only the threads that can be given an entry, and
\* lane 0 of every warp, are followed: the others execute the same writes
\* of the shared counters and forward nothing.
MaxQueue == 3
WarpSize == 32
BlockSizes == {2, WarpSize}

FRows == 0..(d_nfrecvmod3 - 1)
FTids ==
    IF tot_threads <= MaxQueue
    THEN 0..(tot_threads - 1)
    ELSE (0..(MaxQueue - 1))
            \cup {WarpSize * w : w \in 0..((tot_threads \div WarpSize) - 1)}

FwdInit ==
    /\ SchedulerIdle /\ PanelIdle /\ KernelIdle /\ PermIdle /\ EndIdle
    /\ flag_rd_q = <<>> /\ d_statusmod = <<>> /\ destCnt = <<>>
    /\ sigHalf = <<>> /\ notRoot = <<>> /\ WAIT_NUM_THREADS = 0
    /\ wi = <<>> /\ fmodDec = <<>> /\ halfRead = <<>>
    /\ tot_threads \in BlockSizes
    /\ d_nfrecvmod3 \in 1..MaxQueue
    /\ d_flag_mod = [i \in 0..d_nfrecvmod3 |-> IF i = 0 THEN 0 ELSE Uninit]
    /\ qpos = [lk \in FRows |-> [st |-> "idle", pos |-> 0]]
    /\ recv_num = 0 /\ finish_num = 0 /\ cur_send_num = 0
    /\ fpc = [t \in FTids |-> "init"]
    /\ fi = [t \in FTids |-> 1]
    /\ ftodo = [t \in FTids |-> <<>>]
    /\ fwd = [lk \in FRows \cup {Uninit} |-> 0]
    /\ direct = [lk \in FRows |-> 0]

FwdUnchanged ==
    UNCHANGED <<svars, pvars, kvars, gvars, evars, flag_rd_q, d_statusmod,
                destCnt, sigHalf, notRoot, WAIT_NUM_THREADS, wi, fmodDec, halfRead,
                tot_threads, d_nfrecvmod3>>

\* temp_mysendcout = atomicAdd(&d_flag_mod[0], 1)
Enqueue(lk) ==
    /\ lk \in FRows
    /\ qpos[lk].st = "idle"
    /\ d_flag_mod' = [d_flag_mod EXCEPT ![0] = @ + 1]
    /\ qpos' = [qpos EXCEPT ![lk] = [st |-> "counted",
                                     pos |-> d_flag_mod[0] + 1]]
    /\ UNCHANGED <<recv_num, finish_num, cur_send_num, fpc, fi, ftodo, fwd,
                   direct>>
    /\ FwdUnchanged

\* atomicExch(&d_flag_mod[temp_mysendcout + 1], lk), then the producer's own
\* C_RdTree_forwardMessageSimple_Device
WriteEntry(lk) ==
    /\ lk \in FRows
    /\ qpos[lk].st = "counted"
    /\ d_flag_mod' = [d_flag_mod EXCEPT ![qpos[lk].pos] = lk]
    /\ qpos' = [qpos EXCEPT ![lk].st = "written"]
    /\ direct' = [direct EXCEPT ![lk] = @ + 1]
    /\ UNCHANGED <<recv_num, finish_num, cur_send_num, fpc, fi, ftodo, fwd>>
    /\ FwdUnchanged

\* for (...; i < d_nfrecvmod[3] + 1; ...) and if (tid == 0)
AtTop(t, i) ==
    IF i < d_nfrecvmod3 + 1
    THEN IF t = 0 THEN "spin" ELSE "bar1"
    ELSE "done"

\* recv_num = finish_num = 0, by every thread
FwdStart(t) ==
    /\ fpc[t] = "init"
    /\ recv_num' = 0
    /\ finish_num' = 0
    /\ fpc' = [fpc EXCEPT ![t] = AtTop(t, fi[t])]
    /\ UNCHANGED <<d_flag_mod, qpos, cur_send_num, fi, ftodo, fwd, direct>>
    /\ FwdUnchanged

\* do { tmp = d_flag_mod[0]; } while (tmp == finish_num); recv_num = tmp;
FwdSpin(t) ==
    /\ fpc[t] = "spin"
    /\ d_flag_mod[0] # finish_num
    /\ recv_num' = d_flag_mod[0]
    /\ fpc' = [fpc EXCEPT ![t] = "bar1"]
    /\ UNCHANGED <<d_flag_mod, qpos, finish_num, cur_send_num, fi, ftodo, fwd,
                   direct>>
    /\ FwdUnchanged

FwdBarriers == {"bar1", "barT", "bar2"}
FwdAfterBarrier(b) ==
    IF b = "bar1" THEN "s1" ELSE IF b = "barT" THEN "fw" ELSE "inc"

\* __syncthreads(): the threads of the block that have not left the kernel
\* are all at a barrier
FwdSyncThreads ==
    /\ \E t \in FTids : fpc[t] \in FwdBarriers
    /\ \A t \in FTids : fpc[t] \in FwdBarriers \cup {"done"}
    /\ fpc' = [t \in FTids |->
                 IF fpc[t] = "done" THEN "done" ELSE FwdAfterBarrier(fpc[t])]
    /\ UNCHANGED <<d_flag_mod, qpos, recv_num, finish_num, cur_send_num, fi,
                   ftodo, fwd, direct>>
    /\ FwdUnchanged

\* cur_send_num = recv_num - finish_num, by every thread
FwdCur(t) ==
    /\ fpc[t] = "s1"
    /\ cur_send_num' = recv_num - finish_num
    /\ fpc' = [fpc EXCEPT ![t] = "s2"]
    /\ UNCHANGED <<d_flag_mod, qpos, recv_num, finish_num, fi, ftodo, fwd,
                   direct>>
    /\ FwdUnchanged

\* finish_num = recv_num, by every thread
FwdFinish(t) ==
    /\ fpc[t] = "s2"
    /\ finish_num' = recv_num
    /\ fpc' = [fpc EXCEPT ![t] = "br"]
    /\ UNCHANGED <<d_flag_mod, qpos, recv_num, cur_send_num, fi, ftodo, fwd,
                   direct>>
    /\ FwdUnchanged

\* the entries of d_flag_mod thread t of the batch of c entries reads
LoopOffset(t, c) ==
    LET delta == c % tot_threads
        mynum == c \div tot_threads
    IN  IF t < delta THEN t * (mynum + 1)
        ELSE delta * (mynum + 1) + (t - delta) * mynum

WarpBranch(c) == c <= tot_threads \div WarpSize
ThreadBranch(c) == c > tot_threads \div WarpSize /\ c <= tot_threads

MyEntries(t, i, c) ==
    IF WarpBranch(c)
    THEN IF t \div WarpSize < c /\ t % WarpSize = 0
         THEN <<i + t \div WarpSize>> ELSE <<>>
    ELSE IF ThreadBranch(c)
    THEN IF t < c THEN <<i + t>> ELSE <<>>
    ELSE [j \in 1..(c \div tot_threads) |-> i + LoopOffset(t, c) + (j - 1)]

\* the three branches on cur_send_num, up to the first read of d_flag_mod
FwdBranch(t) ==
    /\ fpc[t] = "br"
    /\ LET c == cur_send_num
           todo == MyEntries(t, fi[t], c)
       IN  /\ ftodo' = [ftodo EXCEPT ![t] = todo]
           /\ fpc' = [fpc EXCEPT ![t] =
                        IF ~WarpBranch(c) /\ ThreadBranch(c) THEN "barT"
                        ELSE IF todo = <<>> THEN "bar2" ELSE "fw"]
    /\ UNCHANGED <<d_flag_mod, qpos, recv_num, finish_num, cur_send_num, fi,
                   fwd, direct>>
    /\ FwdUnchanged

\* what lk = d_flag_mod[idx] can be: the row written there, or anything if
\* no producer has written the entry yet or idx is past the queue
ReadEntry(idx) ==
    IF idx \in DOMAIN d_flag_mod /\ d_flag_mod[idx] # Uninit
    THEN {d_flag_mod[idx]}
    ELSE FRows \cup {Uninit}

\* lk = d_flag_mod[...]; C_RdTree_forwardMessage{Warp,Thread}_Device
FwdForward(t) ==
    /\ fpc[t] = "fw"
    /\ IF ftodo[t] = <<>>
       THEN /\ fpc' = [fpc EXCEPT ![t] = "bar2"]
            /\ UNCHANGED <<ftodo, fwd>>
       ELSE /\ \E lk \in ReadEntry(Head(ftodo[t])) :
                  fwd' = [fwd EXCEPT ![lk] = @ + 1]
            /\ ftodo' = [ftodo EXCEPT ![t] = Tail(@)]
            /\ fpc' = [fpc EXCEPT ![t] =
                         IF Tail(ftodo[t]) = <<>> THEN "bar2" ELSE "fw"]
    /\ UNCHANGED <<d_flag_mod, qpos, recv_num, finish_num, cur_send_num, fi,
                   direct>>
    /\ FwdUnchanged

\* i = i + cur_send_num and the loop test
FwdNext(t) ==
    /\ fpc[t] = "inc"
    /\ fi' = [fi EXCEPT ![t] = @ + cur_send_num]
    /\ fpc' = [fpc EXCEPT ![t] = AtTop(t, fi[t] + cur_send_num)]
    /\ UNCHANGED <<d_flag_mod, qpos, recv_num, finish_num, cur_send_num,
                   ftodo, fwd, direct>>
    /\ FwdUnchanged

Forward ==
    \/ \E lk \in FRows : Enqueue(lk)
    \/ \E lk \in FRows : WriteEntry(lk)
    \/ \E t \in FTids : FwdStart(t)
    \/ \E t \in FTids : FwdSpin(t)
    \/ FwdSyncThreads
    \/ \E t \in FTids : FwdCur(t)
    \/ \E t \in FTids : FwdFinish(t)
    \/ \E t \in FTids : FwdBranch(t)
    \/ \E t \in FTids : FwdForward(t)
    \/ \E t \in FTids : FwdNext(t)

ForwardSpec == FwdInit /\ [][Forward]_vars

(* ---------------- at_plus_a_dist, getata_dist, get_perm_c_dist --------- *)
\* A is an a_m-by-a_n pattern in compressed column format; the row indices
\* of one column are distinct and come in any order.
MaxOrder == 2

ColumnsOf(m) ==
    {s \in UNION {[1..l -> 0..(m - 1)] : l \in 0..m} :
        \A a, b \in DOMAIN s : a # b => s[a] # s[b]}

RECURSIVE LenSum(_, _)
LenSum(cols, j) == IF j = 0 THEN 0 ELSE LenSum(cols, j - 1) + Len(cols[j - 1])

ColptrOf(cols, n) == [j \in 0..n |-> LenSum(cols, j)]
RowindOf(cols, n) ==
    [i \in 0..(LenSum(cols, n) - 1) |->
        LET j == CHOOSE c \in 0..(n - 1) :
                    LenSum(cols, c) <= i /\ i < LenSum(cols, c + 1)
        IN  cols[j][i - LenSum(cols, j) + 1]]

Identity(n) == [i \in 0..(n - 1) |-> i]
Perms(n) ==
    {f \in [0..(n - 1) -> 0..(n - 1)] :
        \A a, b \in 0..(n - 1) : a # b => f[a] # f[b]}

\* at_plus_a_dist called on its own with an n-by-n pattern
AtPlusAInit ==
    /\ SchedulerIdle /\ PanelIdle /\ KernelIdle /\ WaitIdle /\ FwdIdle
    /\ EndIdle
    /\ a_n \in 1..MaxOrder /\ a_m = a_n
    /\ \E cols \in [0..(a_n - 1) -> ColumnsOf(a_m)] :
          /\ colptr = ColptrOf(cols, a_n)
          /\ rowind = RowindOf(cols, a_n)
    /\ ispec = "none" /\ HAVE_PARMETIS = FALSE
    /\ gpc = "transpose" /\ gmsg = ""
    /\ t_colptr = <<>> /\ t_rowind = <<>>
    /\ bnz = 0 /\ b_colptr = <<>> /\ b_rowind = <<>>
    /\ perm_c = <<>> /\ gcalls = <<>>

Ispecs == {"NATURAL", "MMD_AT_PLUS_A", "MMD_ATA", "COLAMD", "METIS_AT_PLUS_A",
           "OTHER"}

\* get_perm_c_dist(pnum, ispec, A, perm_c), built with or without ParMETIS
PermInit ==
    /\ SchedulerIdle /\ PanelIdle /\ KernelIdle /\ WaitIdle /\ FwdIdle
    /\ EndIdle
    /\ a_m \in 1..MaxOrder /\ a_n \in 1..MaxOrder
    /\ \E cols \in [0..(a_n - 1) -> ColumnsOf(a_m)] :
          /\ colptr = ColptrOf(cols, a_n)
          /\ rowind = RowindOf(cols, a_n)
    /\ ispec \in Ispecs /\ HAVE_PARMETIS \in BOOLEAN
    /\ gpc = "switch" /\ gmsg = ""
    /\ t_colptr = <<>> /\ t_rowind = <<>>
    /\ bnz = 0 /\ b_colptr = <<>> /\ b_rowind = <<>>
    /\ perm_c = [i \in 0..(a_n - 1) |-> Uninit] /\ gcalls = <<>>

PermUnchanged ==
    UNCHANGED <<svars, pvars, kvars, wvars, fvars, evars>>

nnz == colptr[a_n]

\* the column j the entry i of rowind belongs to
EntryCol(i) ==
    CHOOSE j \in 0..(a_n - 1) : colptr[j] <= i /\ i < colptr[j + 1]

\* ++marker[rowind[i]] over all entries
RowCounts ==
    [r \in 0..(a_m - 1) |-> Cardinality({i \in 0..(nnz - 1) : rowind[i] = r})]

RECURSIVE PrefixSum(_, _)
PrefixSum(cnt, i) == IF i = 0 THEN 0 ELSE PrefixSum(cnt, i - 1) + cnt[i - 1]

\* t_colptr[i+1] = t_colptr[i] + marker[i]
TColptr == [i \in 0..a_m |-> PrefixSum(RowCounts, i)]

\* t_rowind[marker[col]] = j; ++marker[col], entry by entry
RECURSIVE Scatter(_, _, _)
Scatter(i, marker, t) ==
    IF i = nnz THEN t
    ELSE LET col == rowind[i]
         IN  Scatter(i + 1, [marker EXCEPT ![col] = @ + 1],
                     [t EXCEPT ![marker[col]] = EntryCol(i)])

TRowind ==
    Scatter(0, [r \in 0..(a_m - 1) |-> TColptr[r]],
            [i \in 0..(nnz - 1) |-> Uninit])

\* ptr/ind[ptr[j] .. ptr[j+1]-1] in storage order
ColSeq(ptr, ind, j) == [i \in 1..(ptr[j + 1] - ptr[j]) |-> ind[ptr[j] + i - 1]]

RECURSIVE Concat(_)
Concat(ss) == IF ss = <<>> THEN <<>> ELSE Head(ss) \o Concat(Tail(ss))

\* the indices the loops over column j visit, in the order they visit them:
\* column j of A then column j of T (at_plus_a_dist); column k of T for
\* every entry k of column j of A (getata_dist)
APlusAVisits(tp, ti) ==
    [j \in 0..(a_n - 1) |-> ColSeq(colptr, rowind, j) \o ColSeq(tp, ti, j)]
AtaVisits(tp, ti) ==
    [j \in 0..(a_n - 1) |->
        LET acol == ColSeq(colptr, rowind, j)
        IN  Concat([i \in DOMAIN acol |-> ColSeq(tp, ti, acol[i])])]

\* the flag test with the flag ignored
NotFlaggedAlways(marker, k, j) == TRUE

\* if ( marker[k] != j )
NotFlagged(marker, k, j) == marker[k] # j

\* first pass over one column: if (marker[k] != j) { marker[k] = j; ++num_nz }
RECURSIVE CountColumn(_, _, _, _)
CountColumn(seq, j, marker, num_nz) ==
    IF seq = <<>> THEN [marker |-> marker, num_nz |-> num_nz]
    ELSE LET k == Head(seq)
         IN  IF NotFlagged(marker, k, j)
             THEN CountColumn(Tail(seq), j, [marker EXCEPT ![k] = j],
                              num_nz + 1)
             ELSE CountColumn(Tail(seq), j, marker, num_nz)

RECURSIVE CountFrom(_, _, _, _)
CountFrom(visits, j, marker, num_nz) ==
    IF j = a_n THEN num_nz
    ELSE LET r == CountColumn(visits[j], j, [marker EXCEPT ![j] = j], num_nz)
         IN  CountFrom(visits, j + 1, r.marker, r.num_nz)

FirstPass(visits) == CountFrom(visits, 0, [i \in 0..(a_n - 1) |-> -1], 0)

\* second pass over one column:
\* if (marker[k] != j) { marker[k] = j; (*b_rowind)[num_nz++] = k }
RECURSIVE FillColumn(_, _, _, _)
FillColumn(seq, j, marker, rows) ==
    IF seq = <<>> THEN [marker |-> marker, rows |-> rows]
    ELSE LET k == Head(seq)
         IN  IF NotFlagged(marker, k, j)
             THEN FillColumn(Tail(seq), j, [marker EXCEPT ![k] = j],
                             Append(rows, k))
             ELSE FillColumn(Tail(seq), j, marker, rows)

RECURSIVE FillFrom(_, _, _, _, _)
FillFrom(visits, j, marker, rows, cp) ==
    IF j = a_n
    THEN [b_colptr |-> [cp EXCEPT ![a_n] = Len(rows)], b_rowind |-> rows]
    ELSE LET r == FillColumn(visits[j], j, [marker EXCEPT ![j] = j], rows)
         IN  FillFrom(visits, j + 1, r.marker, r.rows,
                      [cp EXCEPT ![j] = Len(rows)])

SecondPass(visits) ==
    FillFrom(visits, 0, [i \in 0..(a_n - 1) |-> -1], <<>>,
             [i \in 0..a_n |-> Uninit])

\* at_plus_a_dist: form T = A'
ATranspose ==
    /\ gpc = "transpose"
    /\ t_colptr' = TColptr
    /\ t_rowind' = TRowind
    /\ gpc' = "first"
    /\ UNCHANGED <<a_m, a_n, colptr, rowind, ispec, HAVE_PARMETIS, gmsg, bnz,
                   b_colptr, b_rowind, perm_c, gcalls>>
    /\ PermUnchanged

\* at_plus_a_dist: the first pass, *bnz = num_nz
AFirstPass ==
    /\ gpc = "first"
    /\ bnz' = FirstPass(APlusAVisits(t_colptr, t_rowind))
    /\ gpc' = "second"
    /\ UNCHANGED <<a_m, a_n, colptr, rowind, ispec, HAVE_PARMETIS, gmsg,
                   t_colptr, t_rowind, b_colptr, b_rowind, perm_c, gcalls>>
    /\ PermUnchanged

\* where at_plus_a_dist returns to
AfterAtPlusA ==
    IF ispec = "MMD_AT_PLUS_A" THEN "order"
    ELSE IF ispec = "METIS_AT_PLUS_A" THEN "metis"
    ELSE "returned"

\* at_plus_a_dist: the second pass, and the return to the caller
ASecondPass ==
    /\ gpc = "second"
    /\ LET B == SecondPass(APlusAVisits(t_colptr, t_rowind))
       IN  /\ b_colptr' = B.b_colptr
           /\ b_rowind' = B.b_rowind
    /\ t_colptr' = <<>>
    /\ t_rowind' = <<>>
    /\ gpc' = AfterAtPlusA
    /\ UNCHANGED <<a_m, a_n, colptr, rowind, ispec, HAVE_PARMETIS, gmsg, bnz,
                   perm_c, gcalls>>
    /\ PermUnchanged

AtPlusA == ATranspose \/ AFirstPass \/ ASecondPass

AtPlusASpec == AtPlusAInit /\ [][AtPlusA]_vars

Abort(msg) ==
    /\ gpc' = "abort"
    /\ gmsg' = msg
    /\ UNCHANGED <<perm_c, gcalls>>

\* the switch on ispec
PermSwitch ==
    /\ gpc = "switch"
    /\ IF ispec = "NATURAL"
       THEN /\ perm_c' = Identity(a_n)
            /\ gpc' = "done"
            /\ UNCHANGED <<gmsg, gcalls>>
       ELSE IF ispec = "MMD_AT_PLUS_A"
                \/ (ispec = "METIS_AT_PLUS_A" /\ HAVE_PARMETIS)
       THEN IF a_m # a_n
            THEN Abort("Matrix is not square")
            ELSE /\ gpc' = "transpose"
                 /\ UNCHANGED <<gmsg, perm_c, gcalls>>
       ELSE IF ispec = "MMD_ATA"
       THEN /\ gpc' = "getata"
            /\ UNCHANGED <<gmsg, perm_c, gcalls>>
       ELSE IF ispec = "COLAMD"
       THEN /\ perm_c' \in Perms(a_n)
            /\ gcalls' = Append(gcalls, "get_colamd_dist")
            /\ gpc' = "done"
            /\ UNCHANGED gmsg
       ELSE Abort("Invalid ISPEC")
    /\ UNCHANGED <<a_m, a_n, colptr, rowind, ispec, HAVE_PARMETIS, t_colptr,
                   t_rowind, bnz, b_colptr, b_rowind>>
    /\ PermUnchanged

\* getata_dist(m, n, ..., &bnz, &b_colptr, &b_rowind)
GetAta ==
    /\ gpc = "getata"
    /\ bnz' = FirstPass(AtaVisits(TColptr, TRowind))
    /\ LET B == SecondPass(AtaVisits(TColptr, TRowind))
       IN  /\ b_colptr' = B.b_colptr
           /\ b_rowind' = B.b_rowind
    /\ gpc' = "order"
    /\ UNCHANGED <<a_m, a_n, colptr, rowind, ispec, HAVE_PARMETIS, gmsg,
                   t_colptr, t_rowind, perm_c, gcalls>>
    /\ PermUnchanged

\* METIS_AT_PLUS_A after at_plus_a_dist: if ( bnz ) get_metis_dist(...)
\* else the identity; b_colptr (and b_rowind) are freed
PermMetis ==
    /\ gpc = "metis"
    /\ IF bnz # 0
       THEN /\ perm_c' \in Perms(a_n)
            /\ gcalls' = Append(gcalls, "get_metis_dist")
       ELSE /\ perm_c' = Identity(a_n)
            /\ UNCHANGED gcalls
    /\ b_colptr' = <<>>
    /\ b_rowind' = <<>>
    /\ gpc' = "done"
    /\ UNCHANGED <<a_m, a_n, colptr, rowind, ispec, HAVE_PARMETIS, gmsg,
                   t_colptr, t_rowind, bnz>>
    /\ PermUnchanged

\* the ordering step with the test of bnz left out
PermOrderAlways ==
    /\ gpc = "order"
    /\ perm_c' \in Perms(a_n)
    /\ gcalls' = Append(gcalls, "genmmd_dist_")
    /\ b_colptr' = <<>>
    /\ b_rowind' = <<>>
    /\ gpc' = "done"
    /\ UNCHANGED <<a_m, a_n, colptr, rowind, ispec, HAVE_PARMETIS, gmsg,
                   t_colptr, t_rowind, bnz>>
    /\ PermUnchanged

\* after the switch: if ( bnz ) the adjacency lists are made 1-based,
\* genmmd_dist_ is called and perm_c is made 0-based, else the identity
PermOrder ==
    /\ gpc = "order"
    /\ IF bnz # 0
       THEN /\ perm_c' \in Perms(a_n)
            /\ gcalls' = Append(gcalls, "genmmd_dist_")
       ELSE /\ perm_c' = Identity(a_n)
            /\ UNCHANGED gcalls
    /\ b_colptr' = <<>>
    /\ b_rowind' = <<>>
    /\ gpc' = "done"
    /\ UNCHANGED <<a_m, a_n, colptr, rowind, ispec, HAVE_PARMETIS, gmsg,
                   t_colptr, t_rowind, bnz>>
    /\ PermUnchanged

GetPermC ==
    \/ PermSwitch
    \/ ATranspose
    \/ AFirstPass
    \/ ASecondPass
    \/ GetAta
    \/ PermMetis
    \/ PermOrder

PermSpec == PermInit /\ [][GetPermC]_vars

(* ------------------ two processes of one communicator ----------------- *)
\* broadcasts on the row communicator (rscp) and on the column
\* communicator (cscp)
RowCommNames == {"BcastDiagL", "BcastLidx", "BcastLval"}
ColCommNames == {"BcastDiagU", "BcastUidx", "BcastUval"}

\* what the peers of a collective must agree on: operation, node, root and
\* element count (the square of the supernode size for a diagonal block,
\* the send count of the node for a panel)
Collective(op) ==
    LET nm == op[1]
        k == op[2]
    IN  [name |-> nm, node |-> k,
         root |-> IF nm = "BcastDiagL" THEN DiagRootL(k)
                  ELSE IF nm = "BcastDiagU" THEN DiagRootU(k)
                  ELSE IF nm \in RowCommNames THEN kcol(k) ELSE krow(k),
         count |-> IF nm \in {"BcastDiagL", "BcastDiagU"}
                   THEN SuperSize(k) * SuperSize(k)
                   ELSE IF nm \in RowCommNames THEN LidxSendCounts[k]
                   ELSE UidxSendCounts[k]]

RECURSIVE CommSeqFrom(_, _, _)
CommSeqFrom(t, names, i) ==
    IF i > Len(t) THEN <<>>
    ELSE Cond(t[i][1] \in names, << Collective(t[i]) >>)
             \o CommSeqFrom(t, names, i + 1)

\* the broadcasts of the calls t on one communicator, in the order entered
CommSeq(t, names) == CommSeqFrom(t, names, 1)

\* Two processes of one row or column communicator run the same scheduler
\* on the same forest metadata and send-count tables.  A broadcast is a
\* local event of the model, so the two are run one after the other: when
\* the first (on the grid diagonal) has returned, its calls are kept in peer
\* and a process of its row or of its column starts from the same inputs
\* in the state InitLocal.
PeerStart ==
    /\ pc = "done"
    /\ peer = NoPeer
    /\ peer' = [row |-> myrow, col |-> mycol, calls |-> trace,
                rowCalls |-> CommSeq(trace, RowCommNames),
                colCalls |-> CommSeq(trace, ColCommNames)]
    /\ \E r \in 0..(nprow - 1), c \in 0..(npcol - 1) :
           /\ (r = myrow) # (c = mycol)
           /\ myrow' = r
           /\ mycol' = c
    /\ pc' = "entry"
    /\ ret' = -1
    /\ info' = 0
    /\ topoLvl' = 0 /\ k0' = 0 /\ k1' = 0 /\ winSize' = 0 /\ winParity' = 0
    /\ halfWin' = 0 /\ k1_next' = 0 /\ oldWinSize' = 0 /\ k0_next' = 0
    /\ donePanelBcast' = <<>> /\ donePanelSolve' = <<>>
    /\ localNumChildrenLeft' = <<>>
    /\ trace' = <<>>
    /\ pending' = [s \in Slots |-> {}]
    /\ UidxRecvBufs' = [s \in Slots |-> NoNode]
    /\ gpuUidxRecvBufs' = [s \in Slots |-> NoNode]
    /\ gpuUvalRecvBufs' = [s \in Slots |-> NoNode]
    /\ LidxRecvBufs' = [s \in Slots |-> NoNode]
    /\ gpuLidxRecvBufs' = [s \in Slots |-> NoNode]
    /\ gpuLvalRecvBufs' = [s \in Slots |-> NoNode]
    /\ uPanelVec' = [k \in 0..(nsupers - 1) |->
                        [index |-> k, gpuIndex |-> k, gpuVal |-> "orig"]]
    /\ lPanelVec' = [k \in 0..(nsupers - 1) |->
                        [index |-> k, gpuIndex |-> k, gpuVal |-> "orig"]]
    /\ BlockLFactor' = [s \in FBufIdx |-> NoNode]
    /\ BlockUFactor' = [s \in FBufIdx |-> NoNode]
    /\ gpuDFBufs' = [s \in FBufIdx |-> <<"none", NoNode>>]
    /\ uSolveDiag' = [k \in 0..(nsupers - 1) |-> <<"none", NoNode>>]
    /\ lSolveDiag' = [k \in 0..(nsupers - 1) |-> <<"none", NoNode>>]
    /\ UNCHANGED <<sched, nnodes, setree, numLA, UidxSendCounts,
                   LidxSendCounts, nearSingular, myIpermEnd>>
    /\ UNCHANGED <<pvars, xvars>>

InitPeer == Init /\ numLA >= 2 /\ myrow = mycol

PeerNext == Pipelined \/ Baseline \/ PeerStart

PeerSpec == InitPeer /\ [][PeerNext]_vars

(* ------------------------- trace operators ---------------------------- *)
OpsAt(name, k) == {i \in DOMAIN trace : trace[i][1] = name /\ trace[i][2] = k}

Before(name, k, i) ==
    \E j \in 1..(i - 1) : trace[j][1] = name /\ trace[j][2] = k

UpdateNames == {"lookAheadUpdateGPU", "dSchurCompUpdateExcludeOneGPU",
                "dSchurComplementUpdateGPU"}

UCommNames == {"BcastUidx", "BcastUval", "MemcpyUidxD2H"}
LCommNames == {"BcastLidx", "BcastLval", "MemcpyLidxD2H"}

\* indices of the calls appended by the current step
NewIdx == (Len(trace) + 1)..Len(trace')

\* node position i went through every stage of the pipelined scheduler
NodeDone(i) ==
    LET k == perm_c_supno(i)
    IN  /\ i \in DOMAIN donePanelSolve
        /\ donePanelSolve[i] = 1
        /\ donePanelBcast[i] = 1
        /\ OpsAt("dDiagFactorPanelSolveGPU", k) # {}
        /\ OpsAt("dPanelBcastGPU", k) # {}
        /\ OpsAt("Doing", k) # {}
        /\ HasSends(k) => /\ OpsAt("lookAheadUpdateGPU", k) # {}
                          /\ OpsAt("dSchurCompUpdateExcludeOneGPU", k) # {}

(* ------------------------------ claims --------------------------------- *)
\* C1: in the pipelined scheduler the diagonal factorization + panel solve
\* of a node with children is issued only once its localNumChildrenLeft is
\* zero, after every child was processed in step 1 and (when it has sends)
\* had its look-ahead update issued
C1_DiagAfterChildren ==
    sched = "pipe" =>
        /\ \A p \in DOMAIN donePanelSolve :
               (donePanelSolve[p] = 1 /\ Children(p) # {})
                   => localNumChildrenLeft[p] = 0
        /\ \A i \in DOMAIN trace :
               trace[i][1] = "dDiagFactorPanelSolveGPU" =>
                   \A c \in Children(myIperm(trace[i][2])) :
                       /\ Before("Doing", perm_c_supno(c), i)
                       /\ HasSends(perm_c_supno(c)) =>
                              Before("lookAheadUpdateGPU", perm_c_supno(c), i)

C1_Witness ==
    /\ sched = "pipe"
    /\ \E p \in DOMAIN donePanelSolve :
           /\ Cardinality(Children(p)) >= 2
           /\ donePanelSolve[p] = 1
           /\ \E c \in Children(p) : HasSends(perm_c_supno(c))

\* C2: with nnodes < 1 both schedulers return 1 at once: no call is issued
\* and no panel or buffer changes
C2_EmptyForest ==
    nnodes < 1 =>
        /\ pc \in {"entry", "done"}
        /\ pc = "done" => ret = 1
        /\ trace = <<>>
        /\ \A s \in Slots :
               /\ pending[s] = {}
               /\ UidxRecvBufs[s] = NoNode /\ gpuUidxRecvBufs[s] = NoNode
               /\ gpuUvalRecvBufs[s] = NoNode
               /\ LidxRecvBufs[s] = NoNode /\ gpuLidxRecvBufs[s] = NoNode
               /\ gpuLvalRecvBufs[s] = NoNode
        /\ \A k \in DOMAIN uPanelVec :
               /\ uPanelVec[k] = [index |-> k, gpuIndex |-> k, gpuVal |-> "orig"]
               /\ lPanelVec[k] = [index |-> k, gpuIndex |-> k, gpuVal |-> "orig"]

C2_Witness == nnodes = 0 /\ pc = "done" /\ ret = 1 /\ sched = "base"

C4_DegenerateWindow ==
    (sched = "pipe" /\ nnodes >= 1 /\ numLA <= 1)
        ~> (pc = "done" /\ \A i \in Pos : NodeDone(i))

\* C5: per node the pipelined scheduler issues diagonal factorization, then
\* panel broadcast, then look-ahead update, then exclude-one update; no
\* update of a node precedes its factorization or its broadcast
C5_PerNodeOrder ==
    sched = "pipe" =>
        \A i \in DOMAIN trace :
            LET nm == trace[i][1]
                k == trace[i][2]
            IN  /\ nm = "dPanelBcastGPU" =>
                       Before("dDiagFactorPanelSolveGPU", k, i)
                /\ nm \in {"Doing", "lookAheadUpdateGPU"} =>
                       /\ Before("dDiagFactorPanelSolveGPU", k, i)
                       /\ Before("dPanelBcastGPU", k, i)
                /\ nm = "dSchurCompUpdateExcludeOneGPU" =>
                       /\ Before("dDiagFactorPanelSolveGPU", k, i)
                       /\ Before("dPanelBcastGPU", k, i)
                       /\ Before("lookAheadUpdateGPU", k, i)

C5_Witness ==
    /\ sched = "pipe"
    /\ \E i \in Pos :
           /\ TopoLevel(i) > 0
           /\ OpsAt("dSchurCompUpdateExcludeOneGPU", perm_c_supno(i)) # {}

\* C6: a node whose panel broadcast was issued (donePanelBcast = 1) already
\* had its diagonal factorization + panel solve issued (donePanelSolve = 1)
C6_BcastAfterSolve ==
    sched = "pipe" =>
        \A i \in DOMAIN donePanelBcast :
            donePanelBcast[i] = 1 => donePanelSolve[i] = 1

C6_Witness ==
    /\ sched = "pipe"
    /\ \E i \in DOMAIN donePanelBcast :
           TopoLevel(i) > 0 /\ donePanelBcast[i] = 1 /\ pc = "scan"

\* slots into which the panel of supernode k was broadcast
BcastSlots(k) == {trace[i][3] : i \in OpsAt("dPanelBcastGPU", k)}

\* positions of the window being processed and of the window being scanned
InWindow ==
    {i \in Pos : /\ pc \in {"step1", "scan", "sync"}
                 /\ i >= k1
                 /\ i < k1 + (IF pc = "step1" THEN winSize ELSE oldWinSize)}

NextWindow ==
    {i \in Pos : pc \in {"scan", "sync"} /\ i >= k1_next /\ donePanelBcast[i] = 1}

SlotsDisjoint ==
    /\ \A i, j \in InWindow :
           i # j => BcastSlots(perm_c_supno(i)) \cap BcastSlots(perm_c_supno(j)) = {}
    /\ \A i \in InWindow : \A j \in NextWindow :
           BcastSlots(perm_c_supno(i)) \cap BcastSlots(perm_c_supno(j)) = {}

BcastIntoIdleSlot ==
    \A i \in NewIdx :
        trace'[i][1] = "dPanelBcastGPU" => pending[trace'[i][3]] = {}

\* C7: a panel broadcast never goes into a slot on whose stream an update is
\* still outstanding; nodes of one window have distinct slots and the slots
\* of consecutive windows are disjoint
C7_SlotSafety ==
    /\ [](sched = "pipe" => SlotsDisjoint)
    /\ [][sched = "pipe" => BcastIntoIdleSlot]_vars

C7_Witness ==
    /\ sched = "pipe"
    /\ \E i, j \in DOMAIN trace :
           /\ i < j
           /\ trace[i][1] = "dPanelBcastGPU" /\ trace[j][1] = "dPanelBcastGPU"
           /\ trace[i][3] = trace[j][3]
           /\ HasSends(trace[i][2])
    /\ \E i \in InWindow : \E j \in NextWindow : HasSends(perm_c_supno(i))

\* C8: when k1 is advanced every update issued in the window has been
\* synchronized, each on the slot on which the node was processed, and no
\* stream is synchronized for a node without both sends
C8_WindowSynced ==
    sched = "pipe" =>
        /\ pc \in {"while", "done"} =>
               /\ \A s \in Slots : pending[s] = {}
               /\ \A j \in DOMAIN trace :
                      (trace[j][1] = "Doing" /\ HasSends(trace[j][2])) =>
                          \E i \in DOMAIN trace :
                              /\ i > j
                              /\ trace[i] = <<"cudaStreamSynchronize",
                                              trace[j][2], trace[j][3]>>
        /\ \A i \in DOMAIN trace :
               trace[i][1] = "cudaStreamSynchronize" =>
                   /\ HasSends(trace[i][2])
                   /\ \E j \in 1..(i - 1) :
                          trace[j] = <<"Doing", trace[i][2], trace[i][3]>>

C8_Witness ==
    /\ sched = "pipe" /\ pc = "while" /\ k1 > 0 /\ k1 < nnodes
    /\ winSize < halfWin
    /\ \E i \in DOMAIN trace : trace[i][1] = "cudaStreamSynchronize"
    /\ \E i \in DOMAIN trace : trace[i][1] = "Doing" /\ ~HasSends(trace[i][2])

\* C9: dPanelBcastGPU with a zero send count on one side issues no
\* broadcast and no index copy for that side and leaves that side's owned
\* panel and receive buffers unchanged; with both zero it issues nothing
C9_ZeroCountNoOp ==
    [][\A i \in NewIdx :
           trace'[i][1] = "dPanelBcastGPU" =>
               LET k == trace'[i][2]
               IN  /\ UidxSendCounts[k] = 0 =>
                          /\ ubufs' = ubufs
                          /\ \A j \in NewIdx : trace'[j][1] \notin UCommNames
                   /\ LidxSendCounts[k] = 0 =>
                          /\ lbufs' = lbufs
                          /\ \A j \in NewIdx : trace'[j][1] \notin LCommNames]_vars

C9_Witness ==
    \E i \in DOMAIN trace :
        /\ trace[i][1] = "dPanelBcastGPU"
        /\ UidxSendCounts[trace[i][2]] = 0
        /\ LidxSendCounts[trace[i][2]] > 0
        /\ myrow # krow(trace[i][2])
        /\ mycol # kcol(trace[i][2])
        /\ gpuLidxRecvBufs[trace[i][3]] = trace[i][2]

\* C10: when every node has zero L and U send counts neither scheduler
\* issues a Schur-update call
C10_DiagonalOnly ==
    (\A i \in Pos : /\ UidxSendCounts[perm_c_supno(i)] = 0
                    /\ LidxSendCounts[perm_c_supno(i)] = 0)
        => \A i \in DOMAIN trace : trace[i][1] \notin UpdateNames

C10_Witness ==
    /\ pc = "done" /\ nnodes >= 2 /\ maxTopoLevel >= 2
    /\ \A i \in Pos : /\ UidxSendCounts[perm_c_supno(i)] = 0
                      /\ LidxSendCounts[perm_c_supno(i)] = 0
    /\ trace # <<>>

\* diagonal factorizations executed by this process that reported a
\* near-singular block
Reported ==
    {i \in DOMAIN trace : /\ trace[i][1] = "diagFactorPackDiagBlockGPU"
                          /\ trace[i][2] \in nearSingular}

Factored(k) ==
    OpsAt("dDiagFactorPanelSolveGPU", k) \cup OpsAt("DiagFactorPanelSolve", k) # {}

RECURSIVE BaseTraceFrom(_)
BaseTraceFrom(i) ==
    IF i >= nnodes THEN <<>>
    ELSE BaseOps(perm_c_supno(i), i - eTreeTopLims(TopoLevel(i)))
             \o BaseTraceFrom(i + 1)

BaselineTrace == BaseTraceFrom(0)

\* scheduler-independent reading of one call: what is done to which node.
\* The full Schur update of the baseline is the update of the parent's
\* blocks followed by the update of all remaining blocks; progress printfs
\* and the window's stream synchronizations are not per-node operations.
Canon(op) ==
    LET nm == op[1]
        k == op[2]
    IN  IF nm \in {"Doing", "Trying", "cudaStreamSynchronize"} THEN <<>>
        ELSE IF nm \in {"dDiagFactorPanelSolveGPU", "DiagFactorPanelSolve"}
             THEN << <<"diag", k>> >>
        ELSE IF nm \in {"dPanelBcastGPU", "PanelBcast"}
             THEN << <<"bcast", k>> >>
        ELSE IF nm = "lookAheadUpdateGPU" THEN << <<"updParent", k>> >>
        ELSE IF nm = "dSchurCompUpdateExcludeOneGPU" THEN << <<"updRest", k>> >>
        ELSE IF nm = "dSchurComplementUpdateGPU"
             THEN << <<"updParent", k>>, <<"updRest", k>> >>
        ELSE << <<nm, k>> >>

RECURSIVE CanonFrom(_, _)
CanonFrom(t, i) ==
    IF i > Len(t) THEN <<>> ELSE Canon(t[i]) \o CanonFrom(t, i + 1)

CanonTrace(t) == CanonFrom(t, 1)

\* the operations on node k, in issue order
NodeView(ct, k) == SelectSeq(ct, LAMBDA e : e[2] = k)

FirstAt(ct, e) == CHOOSE i \in DOMAIN ct : ct[i] = e /\ \A j \in 1..(i - 1) : ct[j] # e

\* the update of the parent's blocks by every child with sends is issued
\* before the parent's diagonal factorization
DepOrder(ct) ==
    \A c \in Pos :
        (ParentPos(c) \in Pos /\ HasSends(perm_c_supno(c))) =>
            LET u == <<"updParent", perm_c_supno(c)>>
                d == <<"diag", setree[perm_c_supno(c)]>>
            IN  /\ \E i \in DOMAIN ct : ct[i] = u
                /\ \E i \in DOMAIN ct : ct[i] = d
                /\ \A i, j \in DOMAIN ct : (ct[i] = u /\ ct[j] = d) => i < j

\* C12: for look-ahead depth >= 2 the finished pipelined scheduler has
\* issued, node by node, the same operations in the same order as the
\* baseline scheduler issues for the same inputs (trace of the finished
\* baseline = BaselineTrace), and in both every child's update of its
\* parent's blocks precedes the parent's diagonal factorization
C12_SamePerNodeSemantics ==
    (pc = "done" /\ nnodes >= 1) =>
        /\ sched = "base" => trace = BaselineTrace
        /\ (sched = "pipe" /\ numLA >= 2) =>
               LET pt == CanonTrace(trace)
                   bt == CanonTrace(BaselineTrace)
               IN  /\ \A i \in Pos :
                          NodeView(pt, perm_c_supno(i)) = NodeView(bt, perm_c_supno(i))
                   /\ DepOrder(pt)
                   /\ DepOrder(bt)

C12_Witness ==
    /\ sched = "pipe" /\ pc = "done" /\ numLA >= 2
    /\ nnodes >= 3 /\ maxTopoLevel >= 2
    /\ \E c \in Pos : /\ Cardinality(Children(c)) >= 2
                        /\ \A d \in Children(c) : HasSends(perm_c_supno(d))
    /\ \E i \in DOMAIN trace : trace[i][1] = "dPanelBcastGPU" /\ trace[i][3] > 0
    /\ \E i \in Pos : ~HasSends(perm_c_supno(i))

\* stage of a baseline call within its node
Stage(nm) ==
    IF nm \in {"DiagFactorPanelSolve", "diagFactorPackDiagBlockGPU"} THEN 1
    ELSE IF nm \in {"BcastDiagL", "BcastDiagU"} THEN 2
    ELSE IF nm \in {"MemcpyDiagL", "uPanelSolveGPU", "uPanelSolveSync",
                    "MemcpyDiagU", "lPanelSolveGPU", "lPanelSolveSync"} THEN 3
    ELSE IF nm \in {"PanelBcast"} \cup UCommNames \cup LCommNames THEN 4
    ELSE IF nm = "dSchurComplementUpdateGPU" THEN 5
    ELSE 0

\* every stage the process takes part in was issued for supernode k
BaseNodeComplete(k) ==
    /\ OpsAt("DiagFactorPanelSolve", k) # {}
    /\ (iam = procIJ(k, k)) => OpsAt("diagFactorPackDiagBlockGPU", k) # {}
    /\ (myrow = krow(k)) => /\ OpsAt("BcastDiagL", k) # {}
                            /\ OpsAt("uPanelSolveSync", k) # {}
    /\ (mycol = kcol(k)) => /\ OpsAt("BcastDiagU", k) # {}
                            /\ OpsAt("lPanelSolveSync", k) # {}
    /\ OpsAt("PanelBcast", k) # {}
    /\ UidxSendCounts[k] > 0 => OpsAt("MemcpyUidxD2H", k) # {}
    /\ LidxSendCounts[k] > 0 => OpsAt("MemcpyLidxD2H", k) # {}
    /\ HasSends(k) => OpsAt("dSchurComplementUpdateGPU", k) # {}

\* C13: the baseline scheduler issues its calls level by level and, in a
\* level, node by node in list order; the calls of one node come in the
\* order factorization, diagonal broadcast, panel solve, panel broadcast,
\* Schur update, all of them before the first call of the next node, with
\* no update left unsynchronized on any stream; no child count exists
C13_BaselineSynchronous ==
    sched = "base" =>
        /\ localNumChildrenLeft = <<>>
        /\ \A s \in Slots : pending[s] = {}
        /\ trace # <<>> => myIperm(trace[1][2]) = 0
        /\ \A i \in 1..(Len(trace) - 1) :
               LET a == myIperm(trace[i][2])
                   b == myIperm(trace[i + 1][2])
               IN  /\ b \in {a, a + 1}
                   /\ TopoLevel(a) <= TopoLevel(b)
                   /\ b = a => Stage(trace[i][1]) <= Stage(trace[i + 1][1])
                   /\ Stage(trace[i][1]) > 0
                   /\ b = a + 1 => BaseNodeComplete(trace[i][2])
        /\ pc = "baseNode" =>
               /\ k0 >= eTreeTopLims(topoLvl)
               /\ k0 < eTreeTopLims(topoLvl + 1) => TopoLevel(k0) = topoLvl
        /\ (pc = "done" /\ nnodes >= 1) =>
               /\ myIperm(trace[Len(trace)][2]) = nnodes - 1
               /\ BaseNodeComplete(trace[Len(trace)][2])

C13_Witness ==
    /\ sched = "base" /\ pc = "done"
    /\ nnodes >= 3 /\ maxTopoLevel >= 2 /\ eTreeTopLims(1) >= 2
    /\ \E i \in DOMAIN trace : trace[i][1] = "dSchurComplementUpdateGPU"
    /\ trace[Len(trace)][1] = "PanelBcast"

\* C14: the calls issued by the baseline scheduler are a function of the
\* forest, the send-count tables and the grid position of the process: at
\* every point of every run the calls issued so far (nodes, order, buffers)
\* are the first Len(trace) calls of the one sequence BaselineTrace, and a
\* finished run has issued all of it
C14_BaselineDeterministic ==
    sched = "base" =>
        /\ Len(trace) <= Len(BaselineTrace)
        /\ trace = SubSeq(BaselineTrace, 1, Len(trace))
        /\ (pc = "done" /\ nnodes >= 1) => Len(trace) = Len(BaselineTrace)

C14_Witness ==
    /\ sched = "base" /\ pc = "done" /\ nnodes >= 3
    /\ eTreeTopLims(1) >= 2 /\ maxTopoLevel >= 2
    /\ \E i, j \in DOMAIN trace :
           /\ trace[i][1] = "DiagFactorPanelSolve" /\ trace[i][3] = 1
           /\ trace[j][1] = "dSchurComplementUpdateGPU"
    /\ myrow = 1 /\ mycol = 0

FirstOp(name, k) == CHOOSE i \in OpsAt(name, k) : \A j \in OpsAt(name, k) : i <= j

\* C16: in dDiagFactorPanelSolveGPU(k) the diagonal block is factored on
\* the process procIJ(k, k) and on no other; the L diagonal block is
\* broadcast by exactly the processes of row krow(k) and the U diagonal
\* block by exactly the processes of column kcol(k), each from the process
\* that factored it; the processes of row krow(k), and only they, then
\* solve their U panel with the L block of k, and the processes of column
\* kcol(k), and only they, their L panel with the U block of k
C16_DiagRoles ==
    \A i \in DOMAIN trace :
        trace[i][1] = "dDiagFactorPanelSolveGPU" =>
            LET k == trace[i][2]
            IN  /\ (OpsAt("diagFactorPackDiagBlockGPU", k) # {}) <=> (iam = procIJ(k, k))
                /\ (OpsAt("BcastDiagL", k) # {}) <=> (myrow = krow(k))
                /\ (OpsAt("BcastDiagU", k) # {}) <=> (mycol = kcol(k))
                /\ (OpsAt("uPanelSolveGPU", k) # {}) <=> (myrow = krow(k))
                /\ (OpsAt("lPanelSolveGPU", k) # {}) <=> (mycol = kcol(k))
                /\ IF myrow = krow(k)
                   THEN /\ uSolveDiag[k] = <<"L", k>>
                        /\ FirstOp("BcastDiagL", k) < FirstOp("uPanelSolveGPU", k)
                   ELSE uSolveDiag[k] = <<"none", NoNode>>
                /\ IF mycol = kcol(k)
                   THEN /\ lSolveDiag[k] = <<"U", k>>
                        /\ FirstOp("BcastDiagU", k) < FirstOp("lPanelSolveGPU", k)
                   ELSE lSolveDiag[k] = <<"none", NoNode>>

C16_Witness ==
    /\ sched = "pipe" /\ pc = "done"
    /\ \E k \in DOMAIN uSolveDiag :
           /\ myrow = krow(k) /\ mycol # kcol(k)
           /\ uSolveDiag[k] = <<"L", k>>
           /\ lSolveDiag[k] = <<"none", NoNode>>
    /\ \E k \in DOMAIN lSolveDiag :
           /\ myrow # krow(k) /\ mycol = kcol(k)
           /\ lSolveDiag[k] = <<"U", k>>

\* transient handles of dPanelBcastGPU and of step 1: the panel the handle
\* of node k on slot s points at
UHandle(k, s) ==
    IF myrow = krow(k)
    THEN [host |-> uPanelVec[k].index, dev |-> uPanelVec[k].gpuIndex,
          owned |-> TRUE]
    ELSE [host |-> UidxRecvBufs[s], dev |-> gpuUidxRecvBufs[s], owned |-> FALSE]

LHandle(k, s) ==
    IF mycol = kcol(k)
    THEN [host |-> lPanelVec[k].index, dev |-> lPanelVec[k].gpuIndex,
          owned |-> TRUE]
    ELSE [host |-> LidxRecvBufs[s], dev |-> gpuLidxRecvBufs[s], owned |-> FALSE]

SamePanelData(pv, pw) ==
    \A k \in DOMAIN pv : pv[k].index = pw[k].index /\ pv[k].gpuIndex = pw[k].gpuIndex

\* effect of one panel broadcast of node k into slot s
BcastThroughHandles(k, s) ==
    /\ SamePanelData(uPanelVec', uPanelVec)
    /\ SamePanelData(lPanelVec', lPanelVec)
    /\ IF myrow = krow(k)
       THEN /\ UHandle(k, s).dev = k
            /\ <<UidxRecvBufs', gpuUidxRecvBufs', gpuUvalRecvBufs'>>
                   = <<UidxRecvBufs, gpuUidxRecvBufs, gpuUvalRecvBufs>>
       ELSE UidxSendCounts[k] > 0 =>
                /\ gpuUidxRecvBufs' = [gpuUidxRecvBufs EXCEPT ![s] = k]
                /\ gpuUvalRecvBufs' = [gpuUvalRecvBufs EXCEPT ![s] = k]
                /\ UidxRecvBufs' = [UidxRecvBufs EXCEPT ![s] = k]
    /\ IF mycol = kcol(k)
       THEN /\ LHandle(k, s).dev = k
            /\ <<LidxRecvBufs', gpuLidxRecvBufs', gpuLvalRecvBufs'>>
                   = <<LidxRecvBufs, gpuLidxRecvBufs, gpuLvalRecvBufs>>
       ELSE LidxSendCounts[k] > 0 =>
                /\ gpuLidxRecvBufs' = [gpuLidxRecvBufs EXCEPT ![s] = k]
                /\ gpuLvalRecvBufs' = [gpuLvalRecvBufs EXCEPT ![s] = k]
                /\ LidxRecvBufs' = [LidxRecvBufs EXCEPT ![s] = k]

\* the handles step 1 gives to the updates of node k hold the panels of k
StepHandlesHoldNode(k, s) ==
    /\ UHandle(k, s).host = k /\ UHandle(k, s).dev = k
    /\ LHandle(k, s).host = k /\ LHandle(k, s).dev = k
    /\ myrow # krow(k) => gpuUvalRecvBufs[s] = k
    /\ mycol # kcol(k) => gpuLvalRecvBufs[s] = k

\* C17: the handle of node k is the owned panel exactly on the processes of
\* row krow(k) (U) and of column kcol(k) (L) and the receive buffers of the
\* slot elsewhere: a panel broadcast leaves the root's receive buffers and
\* every owned panel as they were and puts the panel of k into the slot's
\* receive buffers on every non-root, and the handles step 1 passes to the
\* updates of k hold the panels of k
C17_HandleAliasing ==
    [][\A i \in NewIdx :
           /\ trace'[i][1] \in {"dPanelBcastGPU", "PanelBcast"} =>
                  BcastThroughHandles(trace'[i][2], trace'[i][3])
           /\ trace'[i][1] = "lookAheadUpdateGPU" =>
                  StepHandlesHoldNode(trace'[i][2], trace'[i][3])]_vars

C17_Witness ==
    /\ sched = "pipe" /\ pc = "done"
    /\ \E i, j \in DOMAIN trace :
           /\ trace[i][1] = "lookAheadUpdateGPU" /\ trace[i][3] > 0
           /\ myrow # krow(trace[i][2]) /\ mycol = kcol(trace[i][2])
           /\ trace[j][1] = "lookAheadUpdateGPU"
           /\ myrow = krow(trace[j][2]) /\ mycol # kcol(trace[j][2])

\* no stream of the window was synchronized between calls i and j
SameWindow(i, j) ==
    \A m \in (i + 1)..(j - 1) : trace[m][1] # "cudaStreamSynchronize"

\* C18: two look-ahead updates of different nodes of one window that
\* accumulate into the same trailing block (the diagonal block of their
\* common parent, on the process that owns it) are issued on the same GPU
\* stream
C18_SameBlockOneStream ==
    \A i, j \in DOMAIN trace :
        ( /\ i < j
          /\ trace[i][1] = "lookAheadUpdateGPU"
          /\ trace[j][1] = "lookAheadUpdateGPU"
          /\ trace[i][2] # trace[j][2]
          /\ setree[trace[i][2]] = setree[trace[j][2]]
          /\ iam = procIJ(setree[trace[i][2]], setree[trace[i][2]])
          /\ SameWindow(i, j) )
        => trace[i][3] = trace[j][3]

\* the step processes node k in step 1
DoingNow(k) == \E i \in NewIdx : trace'[i][1] = "Doing" /\ trace'[i][2] = k

\* the step issues the diagonal factorization + panel solve of supernode p
DiagIssuedNow(p) ==
    \E i \in NewIdx : trace'[i] = <<"dDiagFactorPanelSolveGPU", p, 0>>

\* the step brings the child count of position p0 from one to zero
LastChildNow(p0) ==
    /\ p0 \in Pos
    /\ localNumChildrenLeft[p0] = 1
    /\ localNumChildrenLeft'[p0] = 0

\* within the step: look-ahead update of k, then every call of the parent's
\* factorization, then the exclude-one update of k
ParentBetweenUpdates(k) ==
    \A i \in NewIdx :
        trace'[i][2] = setree[k] =>
            /\ \A j \in NewIdx : trace'[j][1] = "lookAheadUpdateGPU" => j < i
            /\ \A j \in NewIdx :
                   trace'[j][1] = "dSchurCompUpdateExcludeOneGPU" => i < j

\* C19 as claimed: processing k in step 1 issues the parent's diagonal
\* factorization + panel solve, between the two updates of k, exactly when
\* it brings the parent's child count to zero and the parent is not in the
\* final topological level
C19_ParentNotInFinalLevel ==
    [][\A k \in DOMAIN setree :
           DoingNow(k) =>
               LET p0 == myIperm(setree[k])
               IN  /\ DiagIssuedNow(setree[k]) <=>
                          (LastChildNow(p0) /\ TopoLevel(p0) < maxTopoLevel - 1)
                   /\ ParentBetweenUpdates(k)]_vars

\* C19 amended: processing k in step 1 issues the parent's diagonal
\* factorization + panel solve, after the look-ahead update of k and before
\* its exclude-one update, exactly when it brings the child count of a
\* parent in the forest to zero, whatever the level of the parent: the
\* test topoLvl < maxTopoLevel - 1 is made with topoLvl = 0
C19_ParentOnLastChild ==
    [][\A k \in DOMAIN setree :
           DoingNow(k) =>
               /\ topoLvl = 0
               /\ DiagIssuedNow(setree[k]) <=> LastChildNow(myIperm(setree[k]))
               /\ ParentBetweenUpdates(k)]_vars

C19_Witness ==
    /\ sched = "pipe"
    /\ \E i, j, m \in DOMAIN trace :
           /\ i < j /\ j < m
           /\ trace[i][1] = "lookAheadUpdateGPU"
           /\ trace[j] = <<"dDiagFactorPanelSolveGPU", setree[trace[i][2]], 0>>
           /\ trace[m] = <<"dSchurCompUpdateExcludeOneGPU", trace[i][2], trace[i][3]>>
           /\ \A n \in i..m : trace[n][1] # "Doing"
           /\ TopoLevel(myIperm(trace[j][2])) = maxTopoLevel - 1

\* the prefix-sum array of the built index starts at 0, grows by the row
\* count of each block and ends at the number of row subscripts lsub[1]
PrefixSumRight ==
    /\ nblocks = Len(lblocks)
    /\ stRow(0) = 0
    /\ \A i \in 0..(nblocks - 1) :
           /\ stRow(i + 1) = stRow(i) + lblocks[i + 1][2]
           /\ stRow(i) <= stRow(i + 1)
    /\ stRow(nblocks) = lsubAt(1)
    /\ stRow(nblocks) = nzrows

\* C20 as claimed: the index built by the constructor has the right prefix
\* sums and its block ids are in increasing global block id order
C20_BlocksIncreasing ==
    lpc = "built" =>
        /\ PrefixSumRight
        /\ \A i \in 0..(nblocks - 2) : gid(i) < gid(i + 1)

\* C20 amended: the index built by the constructor has the right prefix
\* sums, every entry of it is written, and its block ids are the block ids
\* of lsub in the order lsub has them: increasing exactly when the blocks
\* of lsub are
C20_BlocksInLsubOrder ==
    lpc = "built" =>
        /\ PrefixSumRight
        /\ \A i \in DOMAIN index : index[i] # Uninit
        /\ \A i \in 0..(nblocks - 1) : gid(i) = lblocks[i + 1][1]
        /\ (\A i \in 0..(nblocks - 2) : gid(i) < gid(i + 1))
               <=> (\A i \in 1..(Len(lblocks) - 1) :
                        lblocks[i][1] < lblocks[i + 1][1])

C20_Witness ==
    /\ lpc = "built" /\ nblocks = MaxBlocks
    /\ gid(0) > gid(1) /\ gid(1) < gid(2)
    /\ stRow(1) = 1 /\ stRow(2) = 1 + MaxRows /\ stRow(3) = nzrows

\* supernode p is an ancestor of supernode d in the elimination forest
RECURSIVE IsAncestor(_, _)
IsAncestor(p, d) ==
    /\ d \in DOMAIN setree
    /\ \/ setree[d] = p
       \/ IsAncestor(p, setree[d])

\* the update call op accumulates into the panels of supernode p: the
\* look-ahead update of a child, the exclude-one update of a deeper
\* descendant
WritesInto(op, p) ==
    \/ op[1] = "lookAheadUpdateGPU" /\ setree[op[2]] = p
    \/ /\ op[1] = "dSchurCompUpdateExcludeOneGPU"
       /\ setree[op[2]] # p
       /\ IsAncestor(p, op[2])

SyncNames == {"cudaStreamSynchronize", "uPanelSolveSync", "lPanelSolveSync"}

\* the update issued at index j of the trace is still outstanding when the
\* call at index i is issued: no synchronization of its stream in between
Outstanding(j, i) ==
    \A m \in (j + 1)..(i - 1) :
        ~(trace[m][1] \in SyncNames /\ trace[m][3] = trace[j][3])

\* C21: when the pipelined scheduler issues the diagonal factorization of a
\* node p (on the stream of slot 0) or the broadcast of p's panel, no update
\* that writes into p's panel and was issued on another slot's stream is
\* still outstanding
C21_NoUpdateOutstanding ==
    sched = "pipe" =>
        \A i \in DOMAIN trace :
            trace[i][1] \in {"dDiagFactorPanelSolveGPU", "dPanelBcastGPU"} =>
                \A j \in 1..(i - 1) :
                    (WritesInto(trace[j], trace[i][2]) /\ trace[j][3] # trace[i][3])
                        => ~Outstanding(j, i)

ProcessNames == {"Doing", "lookAheadUpdateGPU", "dSchurCompUpdateExcludeOneGPU",
                 "cudaStreamSynchronize"}

\* C22: every node the pipelined scheduler processes was broadcast into
\* exactly one slot, and that slot is the one its step-1 handles and Schur
\* updates use and the one whose stream is synchronized for it at the end of
\* the window, also when the window was shrunk after the broadcast
C22_SlotAgreement ==
    sched = "pipe" =>
        \A i \in DOMAIN trace :
            trace[i][1] \in ProcessNames =>
                /\ Before("dPanelBcastGPU", trace[i][2], i)
                /\ BcastSlots(trace[i][2]) = {trace[i][3]}

\* the third node of a forest with two leaves was broadcast into slot
\* halfWin = 2 by a scan that then deferred the fourth node and shrank the
\* window to 1; it was processed and synchronized on slot 2
C22_Witness ==
    /\ sched = "pipe" /\ pc = "done" /\ numLA = 4 /\ nnodes = 4
    /\ eTreeTopLims(1) = 2
    /\ winSize = 1
    /\ \E d \in OpsAt("Doing", perm_c_supno(2)) :
           /\ trace[d][3] = 2
           /\ \E b \in OpsAt("dPanelBcastGPU", perm_c_supno(2)) :
                  b < d /\ trace[b][3] = 2
           /\ \E n \in OpsAt("dPanelBcastGPU", perm_c_supno(3)) :
                  d < n /\ trace[n][3] = 0
           /\ \E y \in OpsAt("cudaStreamSynchronize", perm_c_supno(2)) :
                  d < y /\ trace[y][3] = 2

\* the step-1 progress markers, in issue order
DoingSeq == SelectSeq(trace, LAMBDA e : e[1] = "Doing")

\* positions 0 .. Len(DoingSeq) - 1 were processed, once each, in order
ProcessedInOrder ==
    \A j \in DOMAIN DoingSeq : DoingSeq[j][2] = perm_c_supno(j - 1)

WindowEnd(w) == SUPERLU_MIN(nnodes, k1 + w)

\* what has been processed at each point of the outer iteration
TilingState ==
    /\ ProcessedInOrder
    /\ pc \in {"rampDiag", "rampBcast"} => DoingSeq = <<>>
    /\ pc = "while" => Len(DoingSeq) = SUPERLU_MIN(nnodes, k1)
    /\ pc = "step1" => /\ k1 <= k0 /\ k0 <= WindowEnd(winSize)
                       /\ Len(DoingSeq) = k0
    /\ pc \in {"scan", "sync"} => /\ Len(DoingSeq) = WindowEnd(oldWinSize)
                                  /\ k1_next = k1 + oldWinSize
    /\ (pc = "done" /\ ret = 0) => Len(DoingSeq) = nnodes

\* the window size is fixed while the window is processed, and k1 advances
\* by it with the parity toggled
TilingStep ==
    /\ pc = "step1" => winSize' = winSize
    /\ (pc = "step1" /\ pc' = "scan") => oldWinSize' = winSize
    /\ pc \in {"scan", "sync"} => /\ oldWinSize' = oldWinSize
                                  /\ k1_next' = k1_next
    /\ IF pc = "sync" /\ pc' = "while"
       THEN k1' = k1 + oldWinSize /\ winParity' = 1 - winParity
       ELSE k1' = k1 /\ winParity' = winParity

Frontier == Cardinality({i \in Pos : donePanelBcast[i] = 1})

\* the broadcast nodes are a prefix of the node list that ends where the
\* next window to be scanned starts
BcastFrontier ==
    pc \in {"while", "step1", "scan", "sync"} =>
        /\ \A i \in Pos : donePanelBcast[i] = 1 <=> i < Frontier
        /\ pc \in {"while", "step1"} => Frontier = SUPERLU_MIN(nnodes, k1 + winSize)
        /\ pc = "scan" => Frontier = SUPERLU_MIN(nnodes, k0_next)
        /\ pc = "sync" => /\ Frontier = SUPERLU_MIN(nnodes, k0_next)
                          /\ Frontier = SUPERLU_MIN(nnodes, k1_next + winSize)

\* the scan looks at position k0_next in this step
ScansNode == pc = "scan" /\ k0_next < SUPERLU_MIN(nnodes, k1_next + winSize)

BcastNow(k) == \E i \in NewIdx : trace'[i][1] = "dPanelBcastGPU" /\ trace'[i][2] = k

\* a scanned node with children left ends the scan: nothing is broadcast,
\* the window ends just before it; the first node a scan looks at has no
\* child left and is broadcast
ScanDefers ==
    ScansNode =>
        IF localNumChildrenLeft[k0_next] # 0
        THEN /\ trace' = trace
             /\ bufs' = bufs
             /\ donePanelBcast' = donePanelBcast
             /\ pc' = "sync"
             /\ winSize' = k0_next - k1_next
             /\ winSize' >= 1
             /\ k0_next' = k0_next
        ELSE /\ BcastNow(perm_c_supno(k0_next))
             /\ donePanelBcast'[k0_next] = 1
             /\ winSize' = winSize

FirstScannedIsReady ==
    (ScansNode /\ k0_next = k1_next) => localNumChildrenLeft[k0_next] = 0

Processed(c) == OpsAt("Doing", perm_c_supno(c)) # {}

\* C25: in the pipelined scheduler localNumChildrenLeft[p] starts as the
\* number of nodes of the forest whose parent is at position p, never
\* becomes negative, and always equals the number of p's children in the
\* forest not yet processed in step 1, whatever their send counts
C25_ChildCount ==
    (sched = "pipe" /\ pc \notin {"entry", "done"}) =>
        /\ DOMAIN localNumChildrenLeft = Pos
        /\ \A p \in Pos :
               /\ localNumChildrenLeft[p] >= 0
               /\ localNumChildrenLeft[p]
                      = Cardinality({c \in Children(p) : ~Processed(c)})

\* the step issues the call nm for supernode k
IssuedNow(nm, k) == \E i \in NewIdx : trace'[i][1] = nm /\ trace'[i][2] = k

\* number of calls of the step that are Schur updates
UpdatesNow == Cardinality({i \in NewIdx : trace'[i][1] \in UpdateNames})

\* processing node k in step 1: both updates when both send counts are
\* positive, none otherwise; in either case the parent in the forest loses
\* one child and is factored when that was its last
UpdatesIffBothSends(k) ==
    LET both == UidxSendCounts[k] > 0 /\ LidxSendCounts[k] > 0
        p0 == myIperm(setree[k])
    IN  /\ IssuedNow("lookAheadUpdateGPU", k) <=> both
        /\ IssuedNow("dSchurCompUpdateExcludeOneGPU", k) <=> both
        /\ UpdatesNow = IF both THEN 2 ELSE 0
        /\ p0 \in Pos =>
               /\ localNumChildrenLeft'[p0] = localNumChildrenLeft[p0] - 1
               /\ localNumChildrenLeft'[p0] = 0 => DiagIssuedNow(setree[k])

\* C26: in the pipelined scheduler the two Schur updates of a node are
\* issued exactly when both its U and its L send count are positive, and
\* only in step 1 of that node; a node with a zero count still takes one
\* child off its parent's count and factors the parent when it was the last
C26_UpdatesIffSends ==
    [][sched = "pipe" =>
           /\ \A k \in DOMAIN setree : DoingNow(k) => UpdatesIffBothSends(k)
           /\ UpdatesNow > 0 => \E k \in DOMAIN setree : DoingNow(k)]_vars

\* a node with an empty U panel and a non-empty L panel was processed
\* without updates and its step factored its parent
C26_Witness ==
    /\ sched = "pipe"
    /\ \E i \in DOMAIN trace :
           /\ trace[i][1] = "Doing"
           /\ UidxSendCounts[trace[i][2]] = 0
           /\ LidxSendCounts[trace[i][2]] > 0
           /\ i < Len(trace)
           /\ trace[i + 1] = <<"dDiagFactorPanelSolveGPU", setree[trace[i][2]], 0>>
    /\ \E i \in DOMAIN trace : trace[i][1] = "dSchurCompUpdateExcludeOneGPU"

BcastSeq == SelectSeq(trace, LAMBDA e : e[1] = "dPanelBcastGPU")

DiagSeq == SelectSeq(trace, LAMBDA e : e[1] = "dDiagFactorPanelSolveGPU")

\* calls issued before step 1 processed its first node: the initial ramp
RampLen ==
    IF \E i \in DOMAIN trace : trace[i][1] = "Doing"
    THEN FirstOp("Doing", perm_c_supno(0)) - 1
    ELSE Len(trace)

RampBcasts ==
    Cardinality({i \in 1..RampLen : trace[i][1] = "dPanelBcastGPU"})

\* size of topological level 0
Level0 == eTreeTopLims(1) - eTreeTopLims(0)

SolveSyncOf(nm) ==
    IF nm = "uPanelSolveGPU" THEN "uPanelSolveSync" ELSE "lPanelSolveSync"

\* the call right after the panel solve at index i synchronizes its stream
SolveSynced(i) ==
    /\ i < Len(trace)
    /\ trace[i + 1] = <<SolveSyncOf(trace[i][1]), trace[i][2], trace[i][3]>>

\* on a process of both row krow(k) and column kcol(k): the L block is
\* copied to the device buffer, the U panel is solved with it and the
\* stream synchronized before the U block overwrites the buffer
OverwriteAfterUSolve(i) ==
    LET k == trace[i][2]
        s == trace[i][3]
    IN  (myrow = krow(k) /\ mycol = kcol(k)) =>
            /\ i >= 5
            /\ trace[i - 4] = <<"BcastDiagU", k, trace[i - 4][3]>>
            /\ trace[i - 3] = <<"MemcpyDiagL", k, s>>
            /\ trace[i - 2] = <<"uPanelSolveGPU", k, s>>
            /\ trace[i - 1] = <<"uPanelSolveSync", k, s>>
            /\ uSolveDiag[k] = <<"L", k>>
            /\ lSolveDiag[k] = <<"U", k>>

\* C28: every panel solve dDiagFactorPanelSolveGPU issues is followed at
\* once by the synchronization of its stream, so none is outstanding when
\* the function goes on or returns; where both panels are solved the U
\* block is copied into the device diagonal buffer only after the U-panel
\* solve that reads the L block from it was synchronized
C28_PanelSolveSynced ==
    \A i \in DOMAIN trace :
        /\ trace[i][1] \in {"uPanelSolveGPU", "lPanelSolveGPU"} => SolveSynced(i)
        /\ trace[i][1] = "MemcpyDiagU" => OverwriteAfterUSolve(i)

\* the owner of a diagonal block factored by the pipelined scheduler in
\* step 1 solved both panels
C28_Witness ==
    /\ sched = "pipe" /\ pc = "done"
    /\ \E i \in DOMAIN trace :
           /\ trace[i][1] = "MemcpyDiagU"
           /\ iam = procIJ(trace[i][2], trace[i][2])
           /\ TopoLevel(myIperm(trace[i][2])) > 0
           /\ gpuDFBufs[0] = <<"U", trace[i][2]>>
           /\ uSolveDiag[trace[i][2]] = <<"L", trace[i][2]>>

IsPrefix(a, b) == Len(a) <= Len(b) /\ a = SubSeq(b, 1, Len(a))

\* this process enters, in the same order, the broadcasts its peer entered
\* on the communicator they share, and all of them once it has returned
SameCollectives(names, theirs) ==
    LET mine == CommSeq(trace, names)
    IN  /\ IsPrefix(mine, theirs)
        /\ pc = "done" => mine = theirs

\* C29: two processes of one row (column) communicator that run the same
\* scheduler on the same forest metadata and send counts enter the same
\* sequence of broadcasts on it: same operation, node, root and element
\* count, in the same order
C29_SameCollectiveSequence ==
    peer # NoPeer =>
        /\ peer.row = myrow => SameCollectives(RowCommNames, peer.rowCalls)
        /\ peer.col = mycol => SameCollectives(ColCommNames, peer.colCalls)

\* both processes of row 1 returned from the pipelined scheduler; they met
\* in diagonal and panel broadcasts on the row communicator, and only one of
\* them entered broadcasts of the column communicator for some node
C29_Witness ==
    /\ peer # NoPeer /\ pc = "done" /\ sched = "pipe"
    /\ peer.row = myrow /\ myrow = 1 /\ nnodes >= 3
    /\ \E i, j \in DOMAIN trace :
           trace[i][1] = "BcastDiagL" /\ trace[j][1] = "BcastLval"
    /\ \E k \in DOMAIN setree :
           /\ \E i \in DOMAIN trace : trace[i][1] = "BcastDiagU" /\ trace[i][2] = k
           /\ \A i \in DOMAIN peer.calls :
                  ~(peer.calls[i][1] = "BcastDiagU" /\ peer.calls[i][2] = k)

\* calls of the pipelined scheduler that take the slot of a window node:
\* the panel broadcast and its transfers, the step-1 handles, the two Schur
\* updates and the synchronization of A_gpu.cuStreams[offset]
SlotNames ==
    {"dPanelBcastGPU", "Trying", "Doing", "lookAheadUpdateGPU",
     "dSchurCompUpdateExcludeOneGPU", "cudaStreamSynchronize"}
        \cup UCommNames \cup LCommNames

\* C30: every slot offset the pipelined scheduler passes to dPanelBcastGPU
\* or to a Schur update, or uses to pick a stream to synchronize, lies in
\* 0 .. numLA - 1, for odd and even look-ahead depths and after any window
\* shrink; the window is never wider than half the look-ahead depth
C30_SlotInRange ==
    sched = "pipe" =>
        /\ \A i \in DOMAIN trace :
               trace[i][1] \in SlotNames =>
                   trace[i][3] >= 0 /\ trace[i][3] < numLA
        /\ pc \in {"while", "step1", "scan", "sync"} =>
               /\ winSize <= halfWin
               /\ 2 * halfWin <= numLA

\* the last slot, numLA - 1, was used for a broadcast, both updates and the
\* synchronization of a node of the second window
C30_Witness ==
    /\ sched = "pipe" /\ pc = "done" /\ numLA >= 2 /\ numLA % 2 = 0
    /\ \E i \in DOMAIN trace :
           /\ trace[i][1] = "cudaStreamSynchronize"
           /\ trace[i][3] = numLA - 1 /\ trace[i][3] > 1
           /\ BcastSlots(trace[i][2]) = {numLA - 1}
           /\ OpsAt("dSchurCompUpdateExcludeOneGPU", trace[i][2]) # {}

\* the scheduler is inside while (k1 < nnodes), or at its test
InMainLoop == pc \in {"while", "step1", "scan", "sync"}

\* one step of the main loop, as far as the window size and k1 go
WindowStep ==
    /\ (InMainLoop /\ InMainLoop') => winSize' <= winSize
    /\ InMainLoop' => winSize' <= halfWin' /\ halfWin' = numLA \div 2
    /\ (InMainLoop' /\ numLA >= 2) => winSize' >= 1
    /\ (pc = "scan" /\ pc' = "scan" /\ k0_next = k1_next /\ numLA >= 2) =>
           localNumChildrenLeft[k0_next] = 0
    /\ (pc = "sync" /\ pc' = "while" /\ numLA >= 2) => k1' > k1

Calls(name, k) == Cardinality(OpsAt(name, k))

\* no node was factored or broadcast twice; a run that returned 0 did both
\* for every node of the forest
OncePerNode ==
    \A i \in Pos :
        LET k == perm_c_supno(i)
        IN  /\ Calls("dDiagFactorPanelSolveGPU", k) <= 1
            /\ Calls("dPanelBcastGPU", k) <= 1
            /\ (pc = "done" /\ ret = 0) =>
                   /\ Calls("dDiagFactorPanelSolveGPU", k) = 1
                   /\ Calls("dPanelBcastGPU", k) = 1

\* the step factors position i exactly when it is the initial loop at a
\* level-0 position i, or step 1 taking the last child of i
FactoredWhenDue(i) ==
    DiagIssuedNow(perm_c_supno(i)) <=>
        IF TopoLevel(i) = 0
        THEN pc = "rampDiag" /\ k0 = i /\ k0' = i + 1
        ELSE pc = "step1" /\ LastChildNow(i)

CoveringUpdate(d, p) ==
    IF setree[d] = p THEN "lookAheadUpdateGPU"
    ELSE "dSchurCompUpdateExcludeOneGPU"

\* in the call sequence t, the update covering p of every descendant of p
\* in this forest that has sends precedes index i
DescendantsUpdated(t, p, i) ==
    \A d \in DOMAIN setree :
        (myIperm(d) \in Pos /\ IsAncestor(p, d) /\ HasSends(d)) =>
            \E j \in 1..(i - 1) : t[j][1] = CoveringUpdate(d, p) /\ t[j][2] = d

\* C33: the pipelined scheduler issues the diagonal factorization of node k
\* only after the update covering k of every descendant of k was issued: the
\* look-ahead update of a child, the exclude-one update of a deeper
\* descendant
C33_AfterDescendantUpdates ==
    [][sched = "pipe" =>
           \A i \in NewIdx :
               trace'[i][1] = "dDiagFactorPanelSolveGPU" =>
                   DescendantsUpdated(trace', trace'[i][2], i)]_vars

\* a node was factored after the look-ahead update of its child and the
\* exclude-one update of a grandchild, both of which have sends
C33_Witness ==
    /\ sched = "pipe"
    /\ \E i \in DOMAIN trace : \E c, g \in DOMAIN setree :
           /\ trace[i][1] = "dDiagFactorPanelSolveGPU"
           /\ setree[c] = trace[i][2] /\ setree[g] = c
           /\ HasSends(c) /\ HasSends(g)
           /\ \E j \in 1..(i - 1) :
                  trace[j][1] = "dSchurCompUpdateExcludeOneGPU" /\ trace[j][2] = g
           /\ \E j \in 1..(i - 1) :
                  trace[j][1] = "lookAheadUpdateGPU" /\ trace[j][2] = c

\* C34: in dlsum_fmod_inv_gpu_mrhs a thread of the thread block of supernode
\* k reads lsum of its block row only when fmod of that row is 0 or below,
\* and then every atomicAdd of every local off-diagonal L block into that
\* row has been applied, for nrhs == 1 and for nrhs > 1
C34_LsumComplete ==
    tpc # <<>> =>
        \A th \in Thr :
            lsumRead[th].read =>
                /\ lsumRead[th].fmod <= 0
                /\ lsumRead[th].adds = AllContributions(th[1])

\* the same for one right-hand side only
LsumCompleteOneRhs == nrhs = 1 => C34_LsumComplete

\* every message of block row lib has been waited for and handled
RowReceived(lib) ==
    d_statusmod[lib * 2] + d_statusmod[lib * 2 + 1] = destCnt[lib]

\* C35: in wait_bcrd every reduction message received for a block row
\* decrements fmod of the row exactly once, whatever nrhs and whether the
\* row has one or two children, in the one-thread-per-column branch and in
\* the several-columns-per-thread branch alike; for a single-child row both
\* branches add the half of ready_lsum the child has written
C35_OneDecrementPerMessage ==
    WAIT_NUM_THREADS > 0 =>
        \A lib \in RecvRows :
            /\ fmodDec[lib] = IF RowReceived(lib) THEN destCnt[lib] ELSE 0
            /\ RowReceived(lib) => halfRead[lib] = SignalledHalves(lib)

\* the same for one right-hand side and one thread per column
OneDecrementOneRhs ==
    (nrhs = 1 /\ OnePerColumn) => C35_OneDecrementPerMessage

\* C36: in thread block 2 of wait_bcrd every block row queued in d_flag_mod
\* is forwarded exactly once, whatever the size of the batch it arrives in:
\* no row is ever forwarded twice, nothing that was not queued is forwarded,
\* and when the threads have left the loop each of the d_nfrecvmod[3] rows
\* has been forwarded
FwdDone == FTids # {} /\ \A t \in FTids : fpc[t] = "done"
C36_ForwardedOnce ==
    /\ \A lk \in DOMAIN fwd : fwd[lk] <= (IF lk \in FRows THEN 1 ELSE 0)
    /\ FwdDone => \A lk \in FRows : fwd[lk] = 1

\* C37: at_plus_a_dist returns the column structure of A'+A: column j of
\* (b_colptr, b_rowind) holds the rows of column j and of row j of A, without
\* j itself and each row once; b_colptr starts at 0, never decreases and ends
\* at *bnz, and the first pass counted as many entries as the second wrote
StructA(j) == {rowind[i] : i \in colptr[j]..(colptr[j + 1] - 1)}
StructT(j) == {k \in 0..(a_n - 1) : j \in StructA(k)}
BIdx(j) == (b_colptr[j] + 1)..b_colptr[j + 1]
C37_AtPlusAStructure ==
    gpc = "returned" =>
        /\ b_colptr[0] = 0
        /\ b_colptr[a_n] = bnz
        /\ bnz = Len(b_rowind)
        /\ \A j \in 0..(a_n - 1) :
              /\ b_colptr[j] <= b_colptr[j + 1]
              /\ {b_rowind[i] : i \in BIdx(j)}
                    = (StructA(j) \cup StructT(j)) \ {j}
              /\ \A a, b \in BIdx(j) : a # b => b_rowind[a] # b_rowind[b]
\* a pattern with a diagonal entry and a symmetric pair of entries
C37_Witness ==
    /\ gpc = "returned"
    /\ bnz > 0
    /\ \E j \in 0..(a_n - 1) : j \in StructA(j)
    /\ \E j, k \in 0..(a_n - 1) :
          j # k /\ k \in StructA(j) /\ j \in StructA(k)

\* C38: get_perm_c_dist returns the identity, with no ordering routine
\* called, for NATURAL and for an empty adjacency structure under
\* MMD_AT_PLUS_A, MMD_ATA and METIS_AT_PLUS_A; it aborts on a non-square
\* matrix under MMD_AT_PLUS_A and METIS_AT_PLUS_A and on an unknown ispec
PermEnded == gpc \in {"done", "abort"}
IdentityReturned ==
    gpc = "done" /\ perm_c = Identity(a_n) /\ gcalls = <<>>
APlusAEmpty == \A j \in 0..(a_n - 1) : StructA(j) \cup StructT(j) \subseteq {j}
AtaEmpty ==
    \A j, c \in 0..(a_n - 1) : j # c => StructA(j) \cap StructA(c) = {}
\* the parts of the claim that do not involve METIS_AT_PLUS_A
PermCommon ==
    /\ ispec = "NATURAL" => IdentityReturned
    /\ ispec = "MMD_AT_PLUS_A" /\ a_m # a_n => gpc = "abort"
    /\ ispec = "MMD_AT_PLUS_A" /\ a_m = a_n /\ APlusAEmpty => IdentityReturned
    /\ ispec = "MMD_ATA" /\ AtaEmpty => IdentityReturned
    /\ ispec = "OTHER" => gpc = "abort"
RECURSIVE BlockRowsIn(_, _)
BlockRowsIn(a, b) ==
    IF a >= b THEN 0 ELSE lblocks[a + 1][2] + BlockRowsIn(a + 1, b)
C39_EndBlock ==
    lpc = "asked" =>
        /\ stRowReads \subseteq 0..nblocks
        /\ IF iSt >= nblocks
           THEN iEnd = nblocks
           ELSE /\ iSt <= iEnd /\ iEnd <= nblocks
                /\ BlockRowsIn(iSt, iEnd) <= maxRows
                /\ iEnd = nblocks \/ BlockRowsIn(iSt, iEnd + 1) > maxRows
                /\ iEnd = iSt <=> BlockRowsIn(iSt, iSt + 1) > maxRows
\* the call stops inside the panel after taking at least one block
C39_Witness ==
    /\ lpc = "asked"
    /\ iSt < iEnd /\ iEnd < nblocks
    /\ BlockRowsIn(iSt, iEnd + 1) > maxRows

====
